---- MODULE Spec2Model ----
(***************************************************************************)
(* NightFrame: the metacognitive engine (training/metacognitive/engine.py),*)
(* the plugin registry and loader (training/plugins/loader.py) and the     *)
(* skill discovery (training/skill_discovery/discovery.py) as state        *)
(* machines.                                                               *)
(*                                                                         *)
(* Confidence values, targets and multipliers are held in hundredths       *)
(* (0.75 is 75, 1.7 is 170); a gap severity (target - current)/target is   *)
(* held as the exact fraction num/den and compared by cross                *)
(* multiplication.  The confidence a caller passes to update_capability is *)
(* a float, a number or nan: [nan |-> .., x |-> ..].                       *)
(* Identifiers and timestamps (_generate_id, utcnow) take                  *)
(* no part in any decision of the engine and are left out: a gap, an       *)
(* objective or a strategy is identified by its position in its list.      *)
(***************************************************************************)
EXTENDS Integers, Sequences, FiniteSets, TLC

\* ------------------------------------------------------------------ bounds

\* run_cycle invocations per behaviour
MaxCycles == 2
\* update_capability calls per behaviour
MaxUpdates == 3
\* a phase that raises does so after at most this many loop iterations
MaxFailAt == 1
\* update_capability calls between the cycles of a behaviour
MaxCycleUpdates == 1
\* the same two, with two threads on the engine
MaxConcCycles == 2
MaxConcUpdates == 1
\* register and unregister calls made on a registry per behaviour
MaxRegistryOps == 4
\* calls made on a loader per behaviour, and writes to its plugin files
MaxLoaderOps == 3
MaxWrites == 1
\* callbacks registered on an engine and a loader, and the cycles, updates and
\* loads made with them
MaxHandlers == 2
MaxNotifyCycles == 1
MaxNotifyUpdates == 1
MaxNotifyLoads == 2
\* analyze_patterns and identify_skill_candidates calls, clusters of one analysis
MaxAnalyses == 2
MaxIdentifies == 2
MaxClusters == 2
\* cycles of an engine whose strategies a client keeps statistics on, and the
\* strategies it has statistics for
MaxAdaptCycles == 4
MaxUsedStrategies == 1
\* cycles of an engine whose gaps run out of attempts
MaxAttemptCycles == 5
\* register_skill calls
MaxRegistrations == 3
\* calls two threads make on one loader, and on a loader wired to an engine
MaxThreadCalls == 3
MaxWiredCalls == 2
\* call chains one thread starts on a wired loader and engine
MaxChainCalls == 2

\* --------------------------------------------------------------- constants

Threads == {"t1", "t2"}

NoThread == "none"

\* class CapabilityDomain
CapabilityDomain ==
    {"4g_lte", "5g_nr", "network_handover", "wifi_ap", "cellular_intelligence",
     "rf_fingerprinting", "location_prediction", "swarm_coordination",
     "internet_provision", "mesh_routing"}

\* class LearningPhase
REFLECTING == "reflecting"
PLANNING == "planning"
EXECUTING == "executing"
EVALUATING == "evaluating"
ADAPTING == "adapting"

LearningPhase == {REFLECTING, PLANNING, EXECUTING, EVALUATING, ADAPTING}

\* _reflect: priority_domains, (domain, target) in the order of the list
priority_domains ==
    << [domain |-> "4g_lte", target |-> 90],
       [domain |-> "5g_nr", target |-> 80],
       [domain |-> "network_handover", target |-> 85],
       [domain |-> "wifi_ap", target |-> 90],
       [domain |-> "internet_provision", target |-> 95],
       [domain |-> "rf_fingerprinting", target |-> 75],
       [domain |-> "location_prediction", target |-> 70],
       [domain |-> "mesh_routing", target |-> 80] >>

\* the skill threshold of update_capability (0.5)
SkillThreshold == 50

\* _plan: sorted_gaps[:5]
TopGaps == 5

\* _plan: target_value = current + 0.1
ObjectiveStep == 10

\* _adapt: unresolved_gaps[:3]
AdaptSlice == 3

\* _adapt: gap.resolution_attempts < 3
MaxAttempts == 3

\* ----------------------------------------------------------------- helpers

Min(a, b) == IF a < b THEN a ELSE b

Max(a, b) == IF a > b THEN a ELSE b

\* s[:n]
Take(s, n) == SubSeq(s, 1, Min(n, Len(s)))

\* dict.get(key, default)
Get(m, k, default) == IF k \in DOMAIN m THEN m[k] ELSE default

\* m[k] = v on a dict
Put(m, k, v) == [x \in DOMAIN m \cup {k} |-> IF x = k THEN v ELSE m[x]]

\* a float argument: the number x (in hundredths), or nan
Num(x) == [nan |-> FALSE, x |-> x]

NaN == [nan |-> TRUE, x |-> 0]

\* f < k and f >= k for a float f and a number k: False whenever f is nan
FloatLess(f, k) == ~f.nan /\ f.x < k

FloatAtLeast(f, k) == ~f.nan /\ f.x >= k

\* the clamp without its upper limit
ClampNoUpper(confidence) == IF confidence.nan THEN 0 ELSE Max(0, confidence.x)

\* max(0, min(1, confidence)): min(1, c) is c when c < 1 and 1 otherwise (so 1
\* for nan), max(0, m) is m when m > 0 and 0 otherwise
Clamp(confidence) ==
    LET m == IF FloatLess(confidence, 100) THEN confidence.x ELSE 100
    IN  IF m > 0 THEN m ELSE 0

\* a threshold that is met again by every confidence at or above it
ThresholdReached(old_value, confidence) == FloatAtLeast(confidence, SkillThreshold)

\* update_capability: old_value < 0.5 and confidence >= 0.5
ThresholdCrossed(old_value, confidence) ==
    old_value < SkillThreshold /\ FloatAtLeast(confidence, SkillThreshold)

\* ------------------------------------------------------------------- state

VARIABLES
    phase,              \* self._phase
    capabilities,       \* self._capabilities: domain -> confidence
    objectives,         \* self._objectives
    gaps,               \* self._gaps
    strategies,         \* self._strategies
    metrics,            \* self._metrics
    learning_cycles,    \* self._learning_cycles
    skills_discovered,  \* self._skills_discovered
    adaptations,        \* self._adaptations
    skill_events,       \* what the on_skill_discovered callbacks were called with
    lock,               \* self._lock (RLock): owner and depth
    db,                 \* the capabilities table and the metrics saved
    pc,                 \* each thread's position
    local,              \* each thread's run_cycle locals
    results,            \* each thread's run_cycle result
    updates,            \* update_capability calls made so far
    handlers,           \* the callback lists of the engine and of the loader
    calls,              \* the callback invocations made so far, in order
    files,              \* the *.py files of plugins_path: name -> content
    plugins,            \* registry._plugins: plugin id -> PluginInfo
    capabilities_map,   \* registry._capabilities_map: capability -> plugin ids
    sys_modules,        \* the plugin ids in sys.modules
    loaded_modules,     \* the plugin ids in loader._loaded_modules
    ret,                \* what the last call on the loader returned or raised
    ops,                \* calls made on the loader and the registry so far
    writes,             \* writes made to plugin files so far
    loaded_text,        \* the text each file had when a load of it last succeeded
    known_patterns,     \* discovery._known_patterns
    pattern_clusters,   \* discovery._pattern_clusters, in insertion order
    candidates,         \* what identify_skill_candidates returned, call by call
    analyses,           \* analyze_patterns calls made so far
    clusters,           \* what the last analyze_patterns returned
    skill_status,       \* the status of each DiscoveredSkill object: skill id -> status
    discovered_skills,  \* discovery._discovered_skills: the ids in the manifest
    skills_table,       \* the discovered_skills table: skill id -> status
    registrations,      \* what register_skill returned, call by call
    loader_lock,        \* loader._lock (RLock): owner and depth
    frames,             \* each thread's calls in progress, the innermost last
    generation,         \* per plugin id, the records registered for it so far
    shut                \* the instances shutdown was called on: (id, record)

\* the engine's own fields
engineVars == << phase, capabilities, objectives, gaps, strategies, metrics,
                 learning_cycles, skills_discovered, adaptations, skill_events,
                 lock, db, pc, local, results, updates >>

\* the loader, its registry and the plugin directory
threadVars == << loader_lock, frames, generation, shut >>

loaderVars == << files, plugins, capabilities_map, sys_modules, loaded_modules,
                 ret, ops, writes, loaded_text, threadVars >>

\* the skill discovery
skillVars == << skill_status, discovered_skills, skills_table, registrations >>

discoveryVars == << known_patterns, pattern_clusters, candidates, analyses, clusters,
                    skillVars >>

vars == << engineVars, handlers, calls, loaderVars, discoveryVars >>

\* what a call on the loader leaves unchanged
LoaderFrame ==
    UNCHANGED << engineVars, handlers, files, writes, discoveryVars, threadVars >>

\* ------------------------------------------------- records of the data model

\* the shortfall itself, not divided by the target
SeverityAbsolute(target, current) == [num |-> target - current, den |-> 100]

\* LearningGap(domain, severity), resolution_attempts = 0, is_resolved = False;
\* severity = (target - current) / target
Severity(target, current) == [num |-> target - current, den |-> target]

LearningGap(domain, target, current) ==
    [domain |-> domain, severity |-> Severity(target, current),
     resolution_attempts |-> 0, is_resolved |-> FALSE]

\* the severities (target - current) / target whose tenfold is a whole number
\* k but comes out just below k in double arithmetic, e.g. (0.75 - 0.45) / 0.75
\* = 0.39999999999999997
FloatShortfall ==
    { << 56, 70 >>, << 28, 70 >>, << 14, 70 >>, << 7, 70 >>, << 60, 75 >>, << 30, 75 >>,
      << 64, 80 >>, << 68, 85 >>, << 34, 85 >>, << 17, 85 >>, << 72, 90 >>, << 36, 90 >>,
      << 9, 90 >>, << 19, 95 >> }

\* round(severity * 10), to the nearest whole number
PriorityRounded(severity) == (severity.num * 20 + severity.den) \div (2 * severity.den)

\* int(gap.severity * 10)
Priority(severity) ==
    IF << severity.num, severity.den >> \in FloatShortfall
    THEN (severity.num * 10) \div severity.den - 1
    ELSE (severity.num * 10) \div severity.den

\* LearningObjective(domain, target_value = current + 0.1, priority), is_achieved = False
LearningObjective(gap, caps) ==
    [domain |-> gap.domain,
     target_value |-> Get(caps, gap.domain, 0) + ObjectiveStep,
     priority |-> Priority(gap.severity),
     is_achieved |-> FALSE]

\* the multiplier taken after the attempt is counted
LearningRateMultiplierAfter(attempts) == 100 + (attempts + 1) * 50

\* 1.0 + attempts * 0.5
LearningRateMultiplier(attempts) == 100 + attempts * 50

\* AdaptationStrategy(parameters = {...}), success_rate = 0.0, usage_count = 0,
\* is_active = True
AdaptationStrategy(gap) ==
    [target_domain |-> gap.domain,
     learning_rate_multiplier |-> LearningRateMultiplier(gap.resolution_attempts),
     batch_size_multiplier |-> 100 + gap.resolution_attempts * 25,
     epochs_multiplier |-> 100 + gap.resolution_attempts * 50,
     success_rate |-> 0, usage_count |-> 0, is_active |-> TRUE]

\* PerformanceMetric(capability_domain, value = confidence, context.previous)
PerformanceMetric(domain, confidence, old_value) ==
    [capability_domain |-> domain, value |-> confidence, previous |-> old_value]

\* the results dict run_cycle starts from
NewResults(cycle_id) ==
    [cycle_id |-> cycle_id, gaps_identified |-> <<>>, objectives_created |-> <<>>,
     adaptations_made |-> <<>>, evaluation |-> <<>>, error |-> FALSE]

\* a thread outside run_cycle
IdleLocal ==
    [training_data |-> FALSE, gaps |-> <<>>, visited |-> <<>>,
     phase_at_begin |-> "", raised |-> FALSE, saved |-> FALSE]

\* ---------------------------------------------------------------- callbacks

\* the events a client can register callbacks for: on_gap_identified,
\* on_skill_discovered, on_adaptation (engine), on_plugin_loaded,
\* on_plugin_error (loader)
Events ==
    {"gap_identified", "skill_discovered", "adaptation", "plugin_loaded", "plugin_error"}

\* the callables a client registers, in the order it registers them; those of
\* RaisingHandlers raise when called
HandlerIds == << "h_raises", "h1", "h2", "h3" >>

RaisingHandlers == {"h_raises"}

NoHandlers == [e \in Events |-> << >>]

\* one call of the i-th callback registered for an event
Invocation(event, i, subject) ==
    [event |-> event, handler |-> handlers[event][i], subject |-> subject,
     raised |-> handlers[event][i] \in RaisingHandlers]

\* a delivery that a raising callback ends
NotifyUntilRaise(event, subject) ==
    LET hs == handlers[event]
        stop == {i \in 1..Len(hs) : hs[i] \in RaisingHandlers}
        last == IF stop = {} THEN Len(hs)
                ELSE CHOOSE i \in stop : \A j \in stop : i <= j
    IN  [i \in 1..last |-> Invocation(event, i, subject)]

\* for callback in self._on_...: try: callback(...) except Exception: log
Notify(event, subject) ==
    [i \in 1..Len(handlers[event]) |-> Invocation(event, i, subject)]

\* the deliveries of a loop that notifies once per item
RECURSIVE NotifyEach(_, _, _)
NotifyEach(event, subjects, n) ==
    IF n = 0 THEN << >>
    ELSE NotifyEach(event, subjects, n - 1) \o Notify(event, subjects[n])

\* on_gap_identified, on_skill_discovered, on_adaptation, on_plugin_loaded,
\* on_plugin_error: the callback is appended to the list of its event
RegisterCallback(event, callback) ==
    [handlers EXCEPT ![event] = Append(@, callback)]

\* ------------------------------------------------------ the plugin data model

\* class PluginStatus
DISCOVERED == "discovered"
LOADING == "loading"
ACTIVE == "active"
ERROR == "error"
DISABLED == "disabled"

PluginStatus == {DISCOVERED, LOADING, ACTIVE, ERROR, DISABLED}

\* the *.py names of plugins_path, in the order glob yields them; the plugin id
\* of a file is its stem
FileNames == << "_private", "alpha", "beta", "gamma" >>

\* file_path.name.startswith("_")
IsPrivate(name) == name = "_private"

\* the texts a plugin file may hold
Texts == 0..4

\* what loading a module of a given text comes to: the step of load that raises
\* ("none": the plugin loads) and the capabilities of the instance
Behaviour(text) ==
    CASE text = 0 -> [raises |-> "none", capabilities |-> << "network", "predictor" >>]
      [] text = 1 -> [raises |-> "none", capabilities |-> << "predictor" >>]
      [] text = 2 -> [raises |-> "initialize", capabilities |-> << >>]
      [] text = 3 -> [raises |-> "exec_module", capabilities |-> << >>]
      [] text = 4 -> [raises |-> "skill_class", capabilities |-> << >>]

\* the number of values of the digest, standing for the 16 hex digits
DigestSpace == 3

\* _compute_checksum: sha256(content).hexdigest()[:16], a digest of fewer values
\* than there are contents
compute_checksum(text) == text % DigestSpace

\* file_checksum = "", the default of PluginInfo: equal to no digest
NoChecksum == -1

\* PluginInfo(...) of a plugin that loaded: status ACTIVE, the instance, load_count 1
LoadedInfo(plugin_id, text) ==
    [plugin_id |-> plugin_id, capabilities |-> Behaviour(text).capabilities,
     status |-> ACTIVE, instance |-> TRUE, load_count |-> 1, execution_count |-> 0,
     error_count |-> 0, last_error |-> "", file_checksum |-> compute_checksum(text)]

\* an ERROR record that carries the checksum of the file
ErrorInfoChecksummed(plugin_id, error) ==
    [plugin_id |-> plugin_id, capabilities |-> << >>,
     status |-> ERROR, instance |-> FALSE, load_count |-> 0, execution_count |-> 0,
     error_count |-> 0, last_error |-> error,
     file_checksum |-> IF plugin_id \in DOMAIN files
                       THEN compute_checksum(files[plugin_id]) ELSE NoChecksum]

\* PluginInfo(...) of the except branch of load: status ERROR, last_error = str(e),
\* no capabilities, no instance, no checksum
ErrorInfo(plugin_id, error) ==
    [plugin_id |-> plugin_id, capabilities |-> << >>,
     status |-> ERROR, instance |-> FALSE, load_count |-> 0, execution_count |-> 0,
     error_count |-> 0, last_error |-> error, file_checksum |-> NoChecksum]

\* no call made on the loader yet
NoCall == [op |-> "none"]

\* DynamicPluginLoader.__init__ over a directory holding `dir`: an empty
\* registry, an empty module cache, no callbacks
LoaderInit(dir) ==
    /\ files = dir
    /\ plugins = << >>
    /\ capabilities_map = << >>
    /\ sys_modules = {}
    /\ loaded_modules = {}
    /\ ret = NoCall
    /\ ops = 0
    /\ writes = 0
    /\ loaded_text = << >>
    /\ loader_lock = [owner |-> NoThread, count |-> 0]
    /\ frames = [t \in Threads |-> << >>]
    /\ generation = [id \in {FileNames[i] : i \in DOMAIN FileNames} |-> 0]
    /\ shut = {}

\* class SkillStatus
CANDIDATE == "candidate"
TESTING == "testing"
DEPRECATED == "deprecated"
FAILED == "failed"

SkillStatus == {CANDIDATE, TESTING, ACTIVE, DEPRECATED, FAILED}

\* the skills a client holds
SkillIds == {"s1", "s2"}

\* SkillDiscovery.__init__ on a new database: an empty table and an empty
\* manifest; the skills of the client have the given statuses
SkillsInit(statuses) ==
    /\ skill_status = statuses
    /\ discovered_skills = {}
    /\ skills_table = << >>
    /\ registrations = << >>

\* SkillDiscovery.__init__ on a new database: nothing known, no clusters
DiscoveryInit ==
    /\ SkillsInit([id \in SkillIds |-> CANDIDATE])
    /\ known_patterns = {}
    /\ pattern_clusters = << >>
    /\ candidates = << >>
    /\ analyses = 0
    /\ clusters = << >>

\* ------------------------------------------------------------ construction

DomainOrder ==
    << "4g_lte", "5g_nr", "network_handover", "wifi_ap", "cellular_intelligence",
       "rf_fingerprinting", "location_prediction", "swarm_coordination",
       "internet_provision", "mesh_routing" >>

\* _init_default_capabilities
DefaultCapabilities == [d \in CapabilityDomain |-> 0]

\* contents of the capabilities table an engine may be constructed on: none (a
\* new database), RF fingerprinting alone below its target, seven gaps of
\* severities 0.3 .. 0.9 and one domain at its target, two domains just below
\* their targets
StoredCapabilities ==
    { << >>,
      [d \in CapabilityDomain |-> IF d = "rf_fingerprinting" THEN 50 ELSE 100],
      [d \in CapabilityDomain |->
          CASE d = "4g_lte" -> 63
            [] d = "5g_nr" -> 8
            [] d = "network_handover" -> 34
            [] d = "wifi_ap" -> 27
            [] d = "internet_provision" -> 19
            [] d = "rf_fingerprinting" -> 45
            [] d = "location_prediction" -> 35
            [] d = "mesh_routing" -> 80
            [] OTHER -> 10],
      [d \in CapabilityDomain |->
          CASE d = "4g_lte" -> 88
            [] d = "internet_provision" -> 94
            [] OTHER -> 100] }

\* the performance_metrics rows behind a capabilities table: one update per
\* domain that is not at its default
RECURSIVE StoredMetrics(_, _)
StoredMetrics(stored, n) ==
    IF n = 0 THEN << >>
    ELSE LET d == DomainOrder[n]
             rest == StoredMetrics(stored, n - 1)
         IN  IF d \in DOMAIN stored /\ stored[d] # 0
             THEN Append(rest, PerformanceMetric(d, Num(stored[d]), 0))
             ELSE rest

\* _load_state: the stored rows over the defaults
LoadState(stored) ==
    [d \in CapabilityDomain \cup DOMAIN stored |->
        IF d \in DOMAIN stored THEN stored[d] ELSE DefaultCapabilities[d]]

\* MetacognitiveEngine.__init__ on a database holding `stored`
EngineInit(stored) ==
    /\ phase = REFLECTING
    /\ capabilities = LoadState(stored)
    /\ objectives = << >>
    /\ gaps = << >>
    /\ strategies = << >>
    /\ metrics = StoredMetrics(stored, Len(DomainOrder))
    /\ learning_cycles = 0
    /\ skills_discovered = 0
    /\ adaptations = 0
    /\ skill_events = << >>
    /\ lock = [owner |-> NoThread, count |-> 0]
    /\ db = [capabilities |-> stored, metrics |-> Len(metrics)]
    /\ pc = [t \in Threads |-> "idle"]
    /\ local = [t \in Threads |-> IdleLocal]
    /\ results = [t \in Threads |-> NewResults(0)]
    /\ updates = 0

\* the engine next to a loader and a discovery that nothing is done with
InitOn(stored) ==
    /\ EngineInit(stored)
    /\ handlers = NoHandlers
    /\ calls = << >>
    /\ LoaderInit(<< >>)
    /\ DiscoveryInit

Init == \E stored \in StoredCapabilities : InitOn(stored)

InitFresh == InitOn(<< >>)

\* ------------------------------------------------------ capability management

\* inputs of update_capability
UpdateDomains == {"rf_fingerprinting", "auto_skill"}

UpdateConfidences == {Num(-30), Num(20), Num(30), Num(60), Num(80), Num(170), NaN}

\* a lock that never blocks
CanAcquireAlways(t) == TRUE

\* with self._lock: the RLock can be taken by a thread when free or its own
CanAcquire(t) == lock.owner = NoThread \/ lock.owner = t

Acquire(t) == [owner |-> t, count |-> lock.count + 1]

Release(t) ==
    IF lock.count = 1 THEN [owner |-> NoThread, count |-> 0]
    ELSE [owner |-> t, count |-> lock.count - 1]

\* update_capability(domain, confidence): the whole call, under the lock
update_capability(t, domain, confidence) ==
    /\ pc[t] = "idle"
    /\ CanAcquire(t)
    /\ LET old_value == Get(capabilities, domain, 0)
       IN  /\ capabilities' = Put(capabilities, domain, Clamp(confidence))
           /\ metrics' = Append(metrics, PerformanceMetric(domain, confidence, old_value))
           /\ IF ThresholdCrossed(old_value, confidence)
              THEN /\ skills_discovered' = skills_discovered + 1
                   /\ skill_events' = Append(skill_events,
                                             [domain |-> domain, confidence |-> confidence])
                   /\ calls' = calls \o Notify("skill_discovered", domain)
              ELSE UNCHANGED << skills_discovered, skill_events, calls >>
    /\ updates' = updates + 1
    /\ UNCHANGED << phase, objectives, gaps, strategies, learning_cycles, adaptations,
                    lock, db, pc, local, results >>
    /\ UNCHANGED << handlers, loaderVars, discoveryVars >>

\* the capability store alone: update_capability calls on a new engine
UpdateCall ==
    /\ updates < MaxUpdates
    /\ \E d \in UpdateDomains, c \in UpdateConfidences : update_capability("t1", d, c)

SpecCap == InitFresh /\ [][UpdateCall]_vars

\* ------------------------------------------------------------------ REFLECT

\* a domain exactly at its target taken for a gap
IsGapAtTarget(current, target) == current <= target

\* _reflect: current < target
IsGap(current, target) == current < target

\* _reflect: the gaps the loop emits over the first n priority domains
RECURSIVE ReflectGaps(_, _)
ReflectGaps(caps, n) ==
    IF n = 0 THEN << >>
    ELSE LET p == priority_domains[n]
             current == Get(caps, p.domain, 0)
             rest == ReflectGaps(caps, n - 1)
         IN  IF IsGap(current, p.target)
             THEN Append(rest, LearningGap(p.domain, p.target, current))
             ELSE rest

\* --------------------------------------------------------------------- PLAN

\* a > b on severities
SeverityGreater(a, b) == a.num * b.den > b.num * a.den

RemoveAt(s, i) == SubSeq(s, 1, i - 1) \o SubSeq(s, i + 1, Len(s))

\* sorted(gaps, key=lambda g: g.severity, reverse=True) on a list of positions
\* in gs: a stable sort, so of equal severities the earlier stays first
RECURSIVE SortedBySeverity(_, _)
SortedBySeverity(idx, gs) ==
    IF idx = << >> THEN << >>
    ELSE LET i == CHOOSE i \in 1..Len(idx) :
                     /\ \A j \in 1..Len(idx) :
                            ~SeverityGreater(gs[idx[j]].severity, gs[idx[i]].severity)
                     /\ \A j \in 1..(i - 1) :
                            SeverityGreater(gs[idx[i]].severity, gs[idx[j]].severity)
         IN  << idx[i] >> \o SortedBySeverity(RemoveAt(idx, i), gs)

\* the first five gaps in the order REFLECT found them
PlanSelectionUnsorted(idx, gs) == Take(idx, TopGaps)

\* _plan: sorted_gaps[:5]
PlanSelection(idx, gs) == Take(SortedBySeverity(idx, gs), TopGaps)

\* ----------------------------------------------------------------- EVALUATE

\* every objective taken for reached
ReachedAnyway(obj, caps) == TRUE

\* _evaluate: current >= obj.target_value
Reached(obj, caps) == Get(caps, obj.domain, 0) >= obj.target_value

\* _evaluate: the objectives after the loop has handled the first n of them
EvaluateObjectives(objs, caps, n) ==
    [i \in 1..Len(objs) |->
        IF i <= n /\ ~objs[i].is_achieved /\ Reached(objs[i], caps)
        THEN [objs[i] EXCEPT !.is_achieved = TRUE]
        ELSE objs[i]]

\* _evaluate: the evaluation dict
Evaluation(objs, caps, n) ==
    [total_objectives |-> Len(objs),
     achieved |-> Cardinality({i \in 1..n : ~objs[i].is_achieved /\ Reached(objs[i], caps)}),
     in_progress |-> Cardinality({i \in 1..n : ~objs[i].is_achieved /\ ~Reached(objs[i], caps)})]

\* -------------------------------------------------------------------- ADAPT

\* _adapt: failing_strategies
IsFailing(s) == s.success_rate < 30 /\ s.usage_count > 5

\* _adapt: "Disable failing strategies"
DisableFailing(strs) ==
    [i \in 1..Len(strs) |->
        IF IsFailing(strs[i]) THEN [strs[i] EXCEPT !.is_active = FALSE] ELSE strs[i]]

\* positions of [g for g in self._gaps if not g.is_resolved]
RECURSIVE UnresolvedFrom(_, _)
UnresolvedFrom(gs, i) ==
    IF i > Len(gs) THEN << >>
    ELSE IF gs[i].is_resolved THEN UnresolvedFrom(gs, i + 1)
    ELSE << i >> \o UnresolvedFrom(gs, i + 1)

\* every unresolved gap selected
AdaptSelectionAll(gs) == UnresolvedFrom(gs, 1)

\* _adapt: unresolved_gaps[:3]
AdaptSelection(gs) == Take(UnresolvedFrom(gs, 1), AdaptSlice)

\* gaps never attempted before are skipped
NeedsStrategyRetryOnly(gap) ==
    gap.resolution_attempts > 0 /\ gap.resolution_attempts < MaxAttempts

\* _adapt: gap.resolution_attempts < 3
NeedsStrategy(gap) == gap.resolution_attempts < MaxAttempts

\* _adapt: the positions, among the first n of the selection, that get a strategy
RECURSIVE Adapted(_, _, _)
Adapted(sel, gs, n) ==
    IF n = 0 THEN << >>
    ELSE IF NeedsStrategy(gs[sel[n]]) THEN Append(Adapted(sel, gs, n - 1), sel[n])
    ELSE Adapted(sel, gs, n - 1)

\* a gap taken for resolved once a strategy has been made for it
BumpAttemptsResolving(gap) ==
    [gap EXCEPT !.resolution_attempts = @ + 1, !.is_resolved = TRUE]

\* _adapt: gap.resolution_attempts += 1
BumpAttempts(gap) == [gap EXCEPT !.resolution_attempts = @ + 1]

Range(s) == {s[i] : i \in DOMAIN s}

\* ---------------------------------------------------------------- run_cycle

\* where a phase that raises may do so: before its loop or after up to
\* MaxFailAt iterations of it
FailPoints(len) == 0..Min(MaxFailAt, len)

\* a raise that is logged inside the phase, the cycle going on
AfterPhaseContinue(raise, next) == next

\* try/except of run_cycle: a raise goes to the handler, which skips the rest
AfterPhase(raise, next) == IF raise THEN "return" ELSE next

\* except Exception as e: results["error"] = str(e)
CycleExcept(r) == [r EXCEPT !.error = TRUE]

\* the phase assignments with EXECUTING taken for EVALUATING
PhaseOfExecuting(step) ==
    CASE step = "reflect" -> REFLECTING
      [] step = "plan" -> PLANNING
      [] step = "evaluate" -> EXECUTING
      [] step = "adapt" -> ADAPTING

\* the phase each step of the try block assigns to self._phase
PhaseOf(step) ==
    CASE step = "reflect" -> REFLECTING
      [] step = "plan" -> PLANNING
      [] step = "evaluate" -> EVALUATING
      [] step = "adapt" -> ADAPTING

\* the invoking thread's record of the phases it has assigned, and of a raise
EnterPhase(l, p, raise) ==
    [l EXCEPT !.visited = Append(@, p), !.raised = raise]

\* run_cycle is called: the thread comes to `with self._lock`
CallRunCycle(t, training_data, limit) ==
    /\ pc[t] = "idle"
    /\ learning_cycles + Cardinality({u \in Threads : pc[u] = "acquire"}) < limit
    /\ pc' = [pc EXCEPT ![t] = "acquire"]
    /\ local' = [local EXCEPT ![t] = [IdleLocal EXCEPT !.training_data = training_data]]
    /\ UNCHANGED << phase, capabilities, objectives, gaps, strategies, metrics,
                    learning_cycles, skills_discovered, adaptations, skill_events,
                    lock, db, results, updates >>
    /\ UNCHANGED << handlers, calls, loaderVars, discoveryVars >>

\* with self._lock: ... self._learning_cycles += 1; results = {...}
BeginCycle(t) ==
    /\ pc[t] = "acquire"
    /\ CanAcquire(t)
    /\ lock' = Acquire(t)
    /\ learning_cycles' = learning_cycles + 1
    /\ results' = [results EXCEPT ![t] = NewResults(learning_cycles + 1)]
    /\ local' = [local EXCEPT ![t].phase_at_begin = phase]
    /\ pc' = [pc EXCEPT ![t] = "reflect"]
    /\ UNCHANGED << phase, capabilities, objectives, gaps, strategies, metrics,
                    skills_discovered, adaptations, skill_events, db, updates >>
    /\ UNCHANGED << handlers, calls, loaderVars, discoveryVars >>

\* Phase 1: self._phase = REFLECTING; gaps = self._reflect()
Reflect(t) ==
    /\ pc[t] = "reflect"
    /\ \E raise \in BOOLEAN, n \in FailPoints(Len(priority_domains)) :
         LET done == IF raise THEN n ELSE Len(priority_domains)
             new == ReflectGaps(capabilities, done)
         IN  /\ ~raise => n = 0
             /\ phase' = PhaseOf(pc[t])
             /\ gaps' = gaps \o new
             /\ calls' = calls \o NotifyEach("gap_identified",
                                             [i \in 1..Len(new) |-> new[i].domain],
                                             Len(new))
             /\ results' = [results EXCEPT ![t] =
                   IF raise THEN CycleExcept(@) ELSE [@ EXCEPT !.gaps_identified = new]]
             /\ local' = [local EXCEPT ![t] =
                   [EnterPhase(@, PhaseOf(pc[t]), raise) EXCEPT !.gaps =
                       IF raise THEN << >>
                       ELSE [i \in 1..Len(new) |-> Len(gaps) + i]]]
             /\ pc' = [pc EXCEPT ![t] = AfterPhase(raise, "plan")]
    /\ UNCHANGED << capabilities, objectives, strategies, metrics, learning_cycles,
                    skills_discovered, adaptations, skill_events, lock, db, updates >>
    /\ UNCHANGED << handlers, loaderVars, discoveryVars >>

\* Phase 2: self._phase = PLANNING; objectives = self._plan(gaps)
Plan(t) ==
    /\ pc[t] = "plan"
    /\ LET sel == PlanSelection(local[t].gaps, gaps)
       IN  \E raise \in BOOLEAN, n \in FailPoints(Len(sel)) :
             LET done == IF raise THEN n ELSE Len(sel)
                 new == [i \in 1..done |-> LearningObjective(gaps[sel[i]], capabilities)]
             IN  /\ ~raise => n = 0
                 /\ phase' = PhaseOf(pc[t])
                 /\ objectives' = objectives \o new
                 /\ results' = [results EXCEPT ![t] =
                       IF raise THEN CycleExcept(@)
                       ELSE [@ EXCEPT !.objectives_created = new]]
                 /\ local' = [local EXCEPT ![t] = EnterPhase(@, PhaseOf(pc[t]), raise)]
                 /\ pc' = [pc EXCEPT ![t] = AfterPhase(raise, "evaluate")]
    /\ UNCHANGED << capabilities, gaps, strategies, metrics, learning_cycles,
                    skills_discovered, adaptations, skill_events, lock, db, updates >>
    /\ UNCHANGED << handlers, calls, loaderVars, discoveryVars >>

\* Phase 3: self._phase = EVALUATING; if training_data is not None: _evaluate
Evaluate(t) ==
    /\ pc[t] = "evaluate"
    /\ \E raise \in BOOLEAN, n \in FailPoints(Len(objectives)) :
         LET done == IF raise THEN n ELSE Len(objectives)
         IN  /\ ~raise => n = 0
             /\ raise => local[t].training_data
             /\ phase' = PhaseOf(pc[t])
             /\ objectives' = IF local[t].training_data
                              THEN EvaluateObjectives(objectives, capabilities, done)
                              ELSE objectives
             /\ results' = [results EXCEPT ![t] =
                   IF raise THEN CycleExcept(@)
                   ELSE IF local[t].training_data
                   THEN [@ EXCEPT !.evaluation =
                            << Evaluation(objectives, capabilities, done) >>]
                   ELSE @]
             /\ local' = [local EXCEPT ![t] = EnterPhase(@, PhaseOf(pc[t]), raise)]
             /\ pc' = [pc EXCEPT ![t] = AfterPhase(raise, "adapt")]
    /\ UNCHANGED << capabilities, gaps, strategies, metrics, learning_cycles,
                    skills_discovered, adaptations, skill_events, lock, db, updates >>
    /\ UNCHANGED << handlers, calls, loaderVars, discoveryVars >>

\* Phase 4: self._phase = ADAPTING; adaptations = self._adapt()
Adapt(t) ==
    /\ pc[t] = "adapt"
    /\ LET sel == AdaptSelection(gaps)
       IN  \E raise \in BOOLEAN, n \in FailPoints(Len(sel)) :
             LET done == IF raise THEN n ELSE Len(sel)
                 hit == Adapted(sel, gaps, done)
                 new == [i \in 1..Len(hit) |-> AdaptationStrategy(gaps[hit[i]])]
             IN  /\ ~raise => n = 0
                 /\ phase' = PhaseOf(pc[t])
                 /\ strategies' = DisableFailing(strategies) \o new
                 /\ gaps' = [i \in 1..Len(gaps) |->
                               IF i \in Range(hit) THEN BumpAttempts(gaps[i]) ELSE gaps[i]]
                 /\ adaptations' = adaptations + Len(hit)
                 /\ calls' = calls \o NotifyEach("adaptation",
                                                 [i \in 1..Len(new) |-> new[i].target_domain],
                                                 Len(new))
                 /\ results' = [results EXCEPT ![t] =
                       IF raise THEN CycleExcept(@)
                       ELSE [@ EXCEPT !.adaptations_made = new]]
                 /\ local' = [local EXCEPT ![t] = EnterPhase(@, PhaseOf(pc[t]), raise)]
                 /\ pc' = [pc EXCEPT ![t] = AfterPhase(raise, "save")]
    /\ UNCHANGED << capabilities, objectives, metrics, learning_cycles,
                    skills_discovered, skill_events, lock, db, updates >>
    /\ UNCHANGED << handlers, loaderVars, discoveryVars >>

\* _save_state: INSERT OR REPLACE of every capability, the metrics not yet
\* stored; one transaction, an error is logged and leaves the tables as they were
SavedState(caps, ms, old) ==
    [capabilities |-> [d \in DOMAIN old.capabilities \cup DOMAIN caps |->
                          IF d \in DOMAIN caps THEN caps[d] ELSE old.capabilities[d]],
     metrics |-> Len(ms)]

\* "Persist state": self._save_state(), the last statement of the try block
SaveState(t) ==
    /\ pc[t] = "save"
    /\ \E ok \in BOOLEAN :
         db' = IF ok THEN SavedState(capabilities, metrics, db) ELSE db
    /\ local' = [local EXCEPT ![t].saved = TRUE]
    /\ pc' = [pc EXCEPT ![t] = "return"]
    /\ UNCHANGED << phase, capabilities, objectives, gaps, strategies, metrics,
                    learning_cycles, skills_discovered, adaptations, skill_events,
                    lock, results, updates >>
    /\ UNCHANGED << handlers, calls, loaderVars, discoveryVars >>

\* return results: the lock is released, the locals and the dict go to the caller
ReturnCycle(t) ==
    /\ pc[t] = "return"
    /\ lock' = Release(t)
    /\ pc' = [pc EXCEPT ![t] = "idle"]
    /\ local' = [local EXCEPT ![t] = IdleLocal]
    /\ results' = [results EXCEPT ![t] = NewResults(0)]
    /\ UNCHANGED << phase, capabilities, objectives, gaps, strategies, metrics,
                    learning_cycles, skills_discovered, adaptations, skill_events,
                    db, updates >>
    /\ UNCHANGED << handlers, calls, loaderVars, discoveryVars >>

\* run_cycle, step by step, in thread t
run_cycle(t, limit) ==
    \/ \E training_data \in BOOLEAN : CallRunCycle(t, training_data, limit)
    \/ BeginCycle(t)
    \/ Reflect(t)
    \/ Plan(t)
    \/ Evaluate(t)
    \/ Adapt(t)
    \/ SaveState(t)
    \/ ReturnCycle(t)

\* ---------------------------------------------------------- specifications

\* updates the driver makes between cycles
CycleUpdates ==
    { << "rf_fingerprinting", Num(60) >>, << "rf_fingerprinting", Num(0) >>,
      << "4g_lte", Num(95) >> }

\* updates beyond those behind the stored table
CycleUpdate(t, limit) ==
    /\ updates < limit
    /\ \E u \in CycleUpdates : update_capability(t, u[1], u[2])

\* one driver thread: cycles, with updates between them
Next == run_cycle("t1", MaxCycles) \/ CycleUpdate("t1", MaxCycleUpdates)

Spec == Init /\ [][Next]_vars

\* two threads on one engine
NextConc ==
    \E t \in Threads : run_cycle(t, MaxConcCycles) \/ CycleUpdate(t, MaxConcUpdates)

SpecConc == InitFresh /\ [][NextConc]_vars

\* contents of the capabilities table with RF fingerprinting alone below its
\* target: severities 0.96, 0.8 and 0.4
PlanTables ==
    { [d \in CapabilityDomain |-> IF d = "rf_fingerprinting" THEN c ELSE 100] :
        c \in {3, 15, 45} }

\* the statistics a client holding a strategy (from the results of run_cycle or
\* an on_adaptation callback) writes to it: usage_count, success_rate
StrategyStats ==
    { [usage_count |-> 5, success_rate |-> 0], [usage_count |-> 6, success_rate |-> 29],
      [usage_count |-> 6, success_rate |-> 30], [usage_count |-> 4, success_rate |-> 90] }

RecordUsage(i, stats) ==
    /\ \A t \in Threads : pc[t] = "idle"
    /\ Cardinality({j \in 1..Len(strategies) : strategies[j].usage_count > 0})
         < MaxUsedStrategies
    /\ strategies' = [strategies EXCEPT ![i].usage_count = stats.usage_count,
                                        ![i].success_rate = stats.success_rate]
    /\ UNCHANGED << phase, capabilities, objectives, gaps, metrics, learning_cycles,
                    skills_discovered, adaptations, skill_events, lock, db, results,
                    updates, pc, local >>
    /\ UNCHANGED << handlers, calls, loaderVars, discoveryVars >>

InitAdapt == \E stored \in PlanTables : InitOn(stored)

\* one driver thread: cycles, the client using a strategy between them
NextAdapt ==
    \/ run_cycle("t1", MaxAdaptCycles)
    \/ \E i \in 1..Len(strategies), stats \in StrategyStats : RecordUsage(i, stats)

SpecAdapt == InitAdapt /\ [][NextAdapt]_vars

\* an engine on a new database (eight gaps a cycle) or on a table with one
\* domain below its target (one gap a cycle), run for more cycles than a gap
\* has attempts
InitAttempts == InitFresh \/ InitAdapt

NextAttempts == run_cycle("t1", MaxAttemptCycles)

SpecAttempts == InitAttempts /\ [][NextAttempts]_vars

\* ------------------------------------------------------------- the registry

\* del m[k]
Remove(m, k) == [x \in DOMAIN m \ {k} |-> m[x]]

\* register: for cap in plugin_info.capabilities (the first n of them): a list
\* is made for a capability that has none, the id is appended unless it is in it
RECURSIVE IndexUnder(_, _, _, _)
IndexUnder(map, caps, plugin_id, n) ==
    IF n = 0 THEN map
    ELSE LET m == IndexUnder(map, caps, plugin_id, n - 1)
             ids == Get(m, caps[n], << >>)
         IN  Put(m, caps[n],
                 IF plugin_id \in Range(ids) THEN ids ELSE Append(ids, plugin_id))

\* [pid for pid in ids if pid != plugin_id]
Without(ids, plugin_id) == SelectSeq(ids, LAMBDA pid : pid # plugin_id)

\* unregister: the id is taken out of the list of every capability of the
\* record being removed
PruneFrom(map, caps, plugin_id) ==
    [cap \in DOMAIN map |->
        IF cap \in Range(caps) THEN Without(map[cap], plugin_id) ELSE map[cap]]

\* the ids a capability is indexed under, present in the registry or not
IndexedIdsUnfiltered(capability) == Get(capabilities_map, capability, << >>)

\* get_by_capability: [... for pid in plugin_ids if pid in self._plugins]
IndexedIds(capability) ==
    SelectSeq(Get(capabilities_map, capability, << >>),
              LAMBDA pid : pid \in DOMAIN plugins)

\* get_by_capability: self._plugins[pid] of each of them, a KeyError for an id
\* the registry does not hold
get_by_capability(capability) ==
    LET ids == IndexedIds(capability)
    IN  [raised |-> \E i \in DOMAIN ids : ids[i] \notin DOMAIN plugins, value |-> ids]

\* the registry, the module cache and the callback log as one value, for the
\* operations that work on them in several steps
Loader ==
    [plugins |-> plugins, capabilities_map |-> capabilities_map,
     sys_modules |-> sys_modules, loaded_modules |-> loaded_modules, calls |-> calls,
     loaded_text |-> loaded_text]

\* the state an operation leaves
Becomes(st) ==
    /\ plugins' = st.plugins
    /\ capabilities_map' = st.capabilities_map
    /\ sys_modules' = st.sys_modules
    /\ loaded_modules' = st.loaded_modules
    /\ calls' = st.calls
    /\ loaded_text' = st.loaded_text

\* PluginRegistry.register(plugin_info)
register(st, plugin_info) ==
    [st EXCEPT
        !.plugins = Put(@, plugin_info.plugin_id, plugin_info),
        !.capabilities_map = IndexUnder(@, plugin_info.capabilities,
                                        plugin_info.plugin_id,
                                        Len(plugin_info.capabilities))]

\* PluginRegistry.unregister(plugin_id) of a plugin the registry holds
unregister(st, plugin_id) ==
    [st EXCEPT
        !.capabilities_map = PruneFrom(@, st.plugins[plugin_id].capabilities, plugin_id),
        !.plugins = Remove(@, plugin_id)]

\* the plugin ids of the callers
PluginIds == {"alpha", "beta"}

\* the capabilities plugins are asked for
Capabilities == {"network", "predictor"}

\* the records a client registers
RegistryInputs ==
    {LoadedInfo(id, text) : id \in PluginIds, text \in {0, 1}}
        \cup {ErrorInfo(id, "error") : id \in PluginIds}

\* a call of registry.register
RegistryRegister(plugin_info) ==
    /\ ops < MaxRegistryOps
    /\ Becomes(register(Loader, plugin_info))
    /\ ret' = [op |-> "register", arg |-> plugin_info.plugin_id, value |-> TRUE]
    /\ ops' = ops + 1
    /\ LoaderFrame

\* a call of registry.unregister: False for an id the registry does not hold
RegistryUnregister(plugin_id) ==
    /\ ops < MaxRegistryOps
    /\ Becomes(IF plugin_id \in DOMAIN plugins
               THEN unregister(Loader, plugin_id) ELSE Loader)
    /\ ret' = [op |-> "unregister", arg |-> plugin_id,
               value |-> plugin_id \in DOMAIN plugins]
    /\ ops' = ops + 1
    /\ LoaderFrame

\* a registry on its own
NextRegistry ==
    \/ \E plugin_info \in RegistryInputs : RegistryRegister(plugin_info)
    \/ \E plugin_id \in PluginIds : RegistryUnregister(plugin_id)

SpecRegistry == InitFresh /\ [][NextRegistry]_vars

\* --------------------------------------------------------------- the loader

\* plugins_path.glob("*.py"): the files there are
Glob == SelectSeq(FileNames, LAMBDA name : name \in DOMAIN files)

\* a discovery that looks for new files only
IsDiscoveredNewOnly(st, name) == ~IsPrivate(name) /\ name \notin DOMAIN st.plugins

\* discover: not an underscore file, and existing is None or
\* existing.file_checksum != checksum
IsDiscovered(st, name) ==
    /\ ~IsPrivate(name)
    /\ \/ name \notin DOMAIN st.plugins
       \/ st.plugins[name].file_checksum # compute_checksum(files[name])

\* discover(): the new or changed files, in the order of the glob
discover(st) == SelectSeq(Glob, LAMBDA name : IsDiscovered(st, name))

\* the step of load that raises for a path: reading a file that is not there
\* raises in _compute_checksum
LoadRaises(name) ==
    IF name \notin DOMAIN files THEN "checksum" ELSE Behaviour(files[name]).raises

\* load: sys.modules[plugin_id] = module before exec_module,
\* self._loaded_modules[plugin_id] = module after it
Imported(st, name, raises) ==
    [st EXCEPT
        !.sys_modules = IF raises = "checksum" THEN @ ELSE @ \cup {name},
        !.loaded_modules =
            IF raises \in {"checksum", "exec_module"} THEN @ ELSE @ \cup {name}]

\* a failure that leaves no record and tells no one
LoadFailedUnrecorded(st, name, error) == [st |-> st, info |-> FALSE]

\* load, except Exception as e: the ERROR record is registered, the error
\* callbacks are called, None is returned
LoadFailed(st, name, error) ==
    LET recorded == register(st, ErrorInfo(name, error))
    IN  [st |-> [recorded EXCEPT !.calls = @ \o Notify("plugin_error", name)],
         info |-> FALSE]

\* load, the end of the try block: the ACTIVE record is registered, the loaded
\* callbacks are called, the record is returned
LoadSucceeded(st, name) ==
    LET recorded == register(st, LoadedInfo(name, files[name]))
    IN  [st |-> [recorded EXCEPT !.calls = @ \o Notify("plugin_loaded", name),
                                 !.loaded_text = Put(@, name, files[name])],
         info |-> TRUE]

\* load(module_path): the state it leaves and whether it returned a PluginInfo
load(st, name) ==
    LET raises == LoadRaises(name)
        imported == Imported(st, name, raises)
    IN  IF raises = "none" THEN LoadSucceeded(imported, name)
        ELSE LoadFailed(imported, name, raises)

\* a batch that ends at its first failure
RECURSIVE LoadEachUntilFailure(_, _, _)
LoadEachUntilFailure(st, names, n) ==
    IF n = 0 THEN [st |-> st, results |-> << >>, failed |-> FALSE]
    ELSE LET before == LoadEachUntilFailure(st, names, n - 1)
             r == load(before.st, names[n])
         IN  IF before.failed THEN before
             ELSE [st |-> r.st,
                   results |-> Put(before.results, names[n], r.info),
                   failed |-> ~r.info]

\* load_all: for path in discovered: info = self.load(path);
\* results[plugin_id] = info is not None and info.status == ACTIVE
RECURSIVE LoadEach(_, _, _)
LoadEach(st, names, n) ==
    IF n = 0 THEN [st |-> st, results |-> << >>, failed |-> FALSE]
    ELSE LET before == LoadEach(st, names, n - 1)
             r == load(before.st, names[n])
         IN  [st |-> r.st,
              results |-> Put(before.results, names[n],
                              r.info /\ r.st.plugins[names[n]].status = ACTIVE),
              failed |-> before.failed \/ ~r.info]

\* load_all()
load_all(st) == LoadEach(st, discover(st), Len(discover(st)))

\* info.instance of a registered plugin
HasInstance(st, plugin_id) ==
    plugin_id \in DOMAIN st.plugins /\ st.plugins[plugin_id].instance

\* del sys.modules[plugin_id]; del self._loaded_modules[plugin_id]
Evicted(st, plugin_id) ==
    [st EXCEPT !.sys_modules = @ \ {plugin_id}, !.loaded_modules = @ \ {plugin_id}]

\* info.instance.shutdown() where there is an instance: the call is on record
Shutdown(st, plugin_id, raises) ==
    IF HasInstance(st, plugin_id)
    THEN [st EXCEPT !.calls = Append(@, [event |-> "shutdown", handler |-> plugin_id,
                                         subject |-> plugin_id, raised |-> raises])]
    ELSE st

\* a reload that an error of shutdown ends
reloadUnlessShutdownRaises(st, plugin_id, shutdown_raises) ==
    IF plugin_id \notin DOMAIN st.plugins THEN [st |-> st, value |-> FALSE]
    ELSE IF shutdown_raises
    THEN [st |-> Shutdown(st, plugin_id, shutdown_raises), value |-> FALSE]
    ELSE LET r == load(Evicted(Shutdown(st, plugin_id, shutdown_raises), plugin_id),
                       plugin_id)
         IN  IF r.info
             THEN [st |-> [r.st EXCEPT !.plugins[plugin_id].load_count =
                                          st.plugins[plugin_id].load_count + 1],
                   value |-> TRUE]
             ELSE [st |-> r.st, value |-> FALSE]

\* reload(plugin_id): False for an unknown id; the instance is shut down (an
\* error of shutdown is passed over), the module evicted, the file loaded
\* again, and new_info.load_count = info.load_count + 1 when that load succeeds
reload(st, plugin_id, shutdown_raises) ==
    IF plugin_id \notin DOMAIN st.plugins THEN [st |-> st, value |-> FALSE]
    ELSE LET r == load(Evicted(Shutdown(st, plugin_id, shutdown_raises), plugin_id),
                       plugin_id)
         IN  IF r.info
             THEN [st |-> [r.st EXCEPT !.plugins[plugin_id].load_count =
                                          st.plugins[plugin_id].load_count + 1],
                   value |-> TRUE]
             ELSE [st |-> r.st, value |-> FALSE]

\* unload(plugin_id): False for an unknown id; inside one try block the
\* instance is shut down, the plugin unregistered, the module evicted; an
\* exception is logged and False returned
unload(st, plugin_id, shutdown_raises) ==
    IF plugin_id \notin DOMAIN st.plugins THEN [st |-> st, value |-> FALSE]
    ELSE IF HasInstance(st, plugin_id) /\ shutdown_raises
    THEN [st |-> Shutdown(st, plugin_id, TRUE), value |-> FALSE]
    ELSE [st |-> Evicted(unregister(Shutdown(st, plugin_id, FALSE), plugin_id),
                         plugin_id),
          value |-> TRUE]

\* execute: the three checks before the try block
CanExecute(st, plugin_id) ==
    /\ plugin_id \in DOMAIN st.plugins
    /\ st.plugins[plugin_id].status = ACTIVE
    /\ st.plugins[plugin_id].instance

\* an execute that counts a failure as an execution too
executeCountsAll(st, plugin_id, fails) ==
    IF ~CanExecute(st, plugin_id) THEN [st |-> st, raised |-> TRUE]
    ELSE IF fails
    THEN [st |-> [st EXCEPT !.plugins[plugin_id].error_count = @ + 1,
                            !.plugins[plugin_id].execution_count = @ + 1,
                            !.plugins[plugin_id].last_error = "execute"],
          raised |-> TRUE]
    ELSE [st |-> [st EXCEPT !.plugins[plugin_id].execution_count = @ + 1],
          raised |-> FALSE]

\* execute(plugin_id, input_data): raises for a plugin that is not there, not
\* ACTIVE or without instance; execution_count += 1 when the instance returns;
\* error_count += 1, last_error = str(e) and the exception raised again when
\* it raises
execute(st, plugin_id, fails) ==
    IF ~CanExecute(st, plugin_id) THEN [st |-> st, raised |-> TRUE]
    ELSE IF fails
    THEN [st |-> [st EXCEPT !.plugins[plugin_id].error_count = @ + 1,
                            !.plugins[plugin_id].last_error = "execute"],
          raised |-> TRUE]
    ELSE [st |-> [st EXCEPT !.plugins[plugin_id].execution_count = @ + 1],
          raised |-> FALSE]

\* a fan-out that the first failing plugin ends
RECURSIVE ExecuteEachUntilFailure(_, _, _, _)
ExecuteEachUntilFailure(st, ids, failing, n) ==
    IF n = 0 THEN [st |-> st, results |-> << >>, raised |-> FALSE]
    ELSE LET before == ExecuteEachUntilFailure(st, ids, failing, n - 1)
             r == execute(before.st, ids[n], ids[n] \in failing)
         IN  IF before.raised \/ before.st.plugins[ids[n]].status # ACTIVE THEN before
             ELSE [st |-> r.st,
                   results |-> IF r.raised THEN before.results
                               ELSE Append(before.results,
                                           [plugin_id |-> ids[n], success |-> TRUE]),
                   raised |-> r.raised]

\* execute_capability: for info in plugins: if info.status == ACTIVE: execute
\* under try, a record of the result or of the error appended
RECURSIVE ExecuteEach(_, _, _, _)
ExecuteEach(st, ids, failing, n) ==
    IF n = 0 THEN [st |-> st, results |-> << >>, raised |-> FALSE]
    ELSE LET before == ExecuteEach(st, ids, failing, n - 1)
             r == execute(before.st, ids[n], ids[n] \in failing)
         IN  IF before.st.plugins[ids[n]].status # ACTIVE THEN before
             ELSE [st |-> r.st,
                   results |-> Append(before.results,
                                      [plugin_id |-> ids[n], success |-> ~r.raised]),
                   raised |-> FALSE]

\* execute_capability(capability, input_data); the instances of `failing` raise
execute_capability(capability, failing) ==
    LET ids == get_by_capability(capability).value
    IN  ExecuteEach(Loader, ids, failing, Len(ids))

Discover ==
    /\ ops < MaxLoaderOps
    /\ Becomes(Loader)
    /\ ret' = [op |-> "discover", value |-> discover(Loader)]
    /\ ops' = ops + 1
    /\ LoaderFrame

Load(name) ==
    /\ ops < MaxLoaderOps
    /\ LET r == load(Loader, name)
       IN  /\ Becomes(r.st)
           /\ ret' = [op |-> "load", arg |-> name, value |-> r.info, raised |-> FALSE]
    /\ ops' = ops + 1
    /\ LoaderFrame

LoadAll ==
    /\ ops < MaxLoaderOps
    /\ LET r == load_all(Loader)
       IN  /\ Becomes(r.st)
           /\ ret' = [op |-> "load_all", discovered |-> discover(Loader),
                      value |-> r.results, raised |-> FALSE]
    /\ ops' = ops + 1
    /\ LoaderFrame

Reload(plugin_id) ==
    /\ ops < MaxLoaderOps
    /\ \E shutdown_raises \in BOOLEAN :
         LET r == reload(Loader, plugin_id, shutdown_raises)
         IN  /\ shutdown_raises => HasInstance(Loader, plugin_id)
             /\ Becomes(r.st)
             /\ ret' = [op |-> "reload", arg |-> plugin_id, value |-> r.value,
                        shutdown_raised |-> shutdown_raises]
    /\ ops' = ops + 1
    /\ LoaderFrame

Unload(plugin_id) ==
    /\ ops < MaxLoaderOps
    /\ \E shutdown_raises \in BOOLEAN :
         LET r == unload(Loader, plugin_id, shutdown_raises)
         IN  /\ shutdown_raises => HasInstance(Loader, plugin_id)
             /\ Becomes(r.st)
             /\ ret' = [op |-> "unload", arg |-> plugin_id, value |-> r.value,
                        shutdown_raised |-> shutdown_raises]
    /\ ops' = ops + 1
    /\ LoaderFrame

Execute(plugin_id) ==
    /\ ops < MaxLoaderOps
    /\ \E fails \in BOOLEAN :
         LET r == execute(Loader, plugin_id, fails)
         IN  /\ fails => CanExecute(Loader, plugin_id)
             /\ Becomes(r.st)
             /\ ret' = [op |-> "execute", arg |-> plugin_id, raised |-> r.raised]
    /\ ops' = ops + 1
    /\ LoaderFrame

ExecuteCapability(capability) ==
    /\ ops < MaxLoaderOps
    /\ \E failing \in SUBSET Range(get_by_capability(capability).value) :
         LET r == execute_capability(capability, failing)
         IN  /\ Becomes(r.st)
             /\ ret' = [op |-> "execute_capability", arg |-> capability,
                        value |-> r.results, raised |-> r.raised, failing |-> failing]
    /\ ops' = ops + 1
    /\ LoaderFrame

\* a plugin file is written: created, or its text changed
WriteFile(name, text) ==
    /\ writes < MaxWrites
    /\ Get(files, name, -1) # text
    /\ files' = Put(files, name, text)
    /\ writes' = writes + 1
    /\ UNCHANGED << engineVars, handlers, calls, plugins, capabilities_map, sys_modules,
                    loaded_modules, ret, ops, loaded_text, discoveryVars, threadVars >>

\* the plugin directories a loader is constructed over: three plugins of which
\* the second does not initialize, next to an underscore file; one plugin whose
\* module does not execute
Directories ==
    { [name \in {"_private", "alpha", "beta", "gamma"} |->
          CASE name = "alpha" -> 0 [] name = "beta" -> 2 [] name = "gamma" -> 1
            [] OTHER -> 0],
      [name \in {"alpha"} |-> 3] }

\* the callbacks a client has registered with the loader
LoaderCallbacks ==
    [NoHandlers EXCEPT !["plugin_loaded"] = << "h1", "h_raises", "h1" >>,
                       !["plugin_error"] = << "h_raises", "h1" >>]

InitLoader ==
    /\ EngineInit(<< >>)
    /\ handlers = LoaderCallbacks
    /\ calls = << >>
    /\ \E dir \in Directories : LoaderInit(dir)
    /\ DiscoveryInit

NextLoader ==
    \/ Discover
    \/ \E name \in Range(FileNames) : Load(name)
    \/ LoadAll
    \/ \E plugin_id \in Range(FileNames) : Reload(plugin_id)
    \/ \E plugin_id \in Range(FileNames) : Unload(plugin_id)
    \/ \E plugin_id \in Range(FileNames) : Execute(plugin_id)
    \/ \E capability \in Capabilities : ExecuteCapability(capability)
    \/ \E name \in PluginIds, text \in Texts : WriteFile(name, text)

SpecLoader == InitLoader /\ [][NextLoader]_vars

\* --------------------------------------------------------- skill discovery

\* centroids in thousandths, of one dimension
Centroids == { << 101 >>, << 104 >>, << 106 >> }

\* round(v, 2) in hundredths, for v away from a tie
Quantized(centroid) == [i \in 1..Len(centroid) |-> (centroid[i] + 5) \div 10]

\* the digests a signature is drawn from: hexdigest()[:16]
SignatureSpace == 4

RECURSIVE Digest(_, _)
Digest(quantized, n) ==
    IF n = 0 THEN 0
    ELSE (Digest(quantized, n - 1) * 7 + quantized[n]) % SignatureSpace

compute_pattern_signature(centroid) == Digest(Quantized(centroid), Len(centroid))

\* len(data) of an analysis, below and at the ten samples it needs
DataSizes == {9, 10}

MinSamples == 10

\* what k-means finds, cluster by cluster: a centroid, and whether _generate_id
\* ran in the microsecond of the cluster before
ClusterOutcomes ==
    UNION { [1..n -> [centroid : Centroids, same_tick : BOOLEAN]] : n \in 1..MaxClusters }

\* the ids _generate_id gives the clusters of an analysis: the clock has moved on
\* since the analysis before, two ids of one analysis may share a timestamp
ClusterId(outcome, k) ==
    analyses * MaxClusters
        + Cardinality({j \in 1..k : j = 1 \/ ~outcome[j].same_tick})

PatternCluster(outcome, k, domain) ==
    [cluster_id |-> ClusterId(outcome, k),
     centroid   |-> outcome[k].centroid,
     domain     |-> domain,
     is_novel   |-> compute_pattern_signature(outcome[k].centroid) \notin known_patterns]

cluster_patterns(outcome, domain) ==
    [k \in 1..Len(outcome) |-> PatternCluster(outcome, k, domain)]

RECURSIVE Stored(_, _, _)
Stored(map, found, n) ==
    IF n = 0 THEN map
    ELSE Put(Stored(map, found, n - 1), found[n].cluster_id, found[n])

\* analyze_patterns(data, domain)
analyze_patterns(size, domain, outcome) ==
    IF size < MinSamples
    THEN /\ clusters' = << >>
         /\ UNCHANGED pattern_clusters
    ELSE LET found == cluster_patterns(outcome, domain)
         IN  /\ pattern_clusters' = Stored(pattern_clusters, found, Len(found))
             /\ clusters' = found

\* dict.values(): the ids grow with the clock, so id order is insertion order
RECURSIVE Values(_, _)
Values(map, ids) ==
    IF ids = {} THEN << >>
    ELSE LET last == CHOOSE i \in ids : \A j \in ids : j <= i
         IN  Append(Values(map, ids \ {last}), map[last])

SelectNovel(found) == SelectSeq(found, LAMBDA c : c.is_novel)

Candidate(cluster) ==
    [pattern_signature |-> compute_pattern_signature(cluster.centroid),
     pattern_features  |-> cluster.centroid,
     domain            |-> cluster.domain,
     status            |-> "candidate"]

\* the loop of identify_skill_candidates without line 264
IdentifyForgetful(st, cluster) ==
    IF ~cluster.is_novel \/ Candidate(cluster).pattern_signature \in st.known
    THEN st
    ELSE [known |-> st.known, value |-> Append(st.value, Candidate(cluster))]

\* one turn of the loop of identify_skill_candidates
Identify(st, cluster) ==
    IF ~cluster.is_novel \/ Candidate(cluster).pattern_signature \in st.known
    THEN st
    ELSE [known |-> st.known \cup {Candidate(cluster).pattern_signature},
          value |-> Append(st.value, Candidate(cluster))]

RECURSIVE IdentifyEach(_, _, _)
IdentifyEach(known, given, n) ==
    IF n = 0 THEN [known |-> known, value |-> << >>]
    ELSE Identify(IdentifyEach(known, given, n - 1), given[n])

\* the clusters argument: None, or a list
None == [none |-> TRUE, list |-> << >>]

Given(list) == [none |-> FALSE, list |-> list]

\* identify_skill_candidates(clusters): the known set and the list returned
identify_skill_candidates(known, stored, given) ==
    LET list == IF given.none
                THEN SelectNovel(Values(stored, DOMAIN stored))
                ELSE given.list
    IN  IdentifyEach(known, list, Len(list))

\* the lists a caller passes: none, the clusters of the last analysis, those
\* twice over, or one stored cluster
ClusterLists ==
    {None, Given(clusters), Given(clusters \o clusters)}
        \cup { Given(<< pattern_clusters[i] >>) : i \in DOMAIN pattern_clusters }

DiscoveryFrame == UNCHANGED << engineVars, handlers, calls, loaderVars >>

AnalyzePatterns ==
    /\ analyses < MaxAnalyses
    /\ \E size \in DataSizes, outcome \in ClusterOutcomes :
         analyze_patterns(size, "rf_fingerprinting", outcome)
    /\ analyses' = analyses + 1
    /\ UNCHANGED << known_patterns, candidates, skillVars >>
    /\ DiscoveryFrame

IdentifySkillCandidates ==
    /\ Len(candidates) < MaxIdentifies
    /\ \E given \in ClusterLists :
         LET done == identify_skill_candidates(known_patterns, pattern_clusters, given)
         IN  /\ known_patterns' = done.known
             /\ candidates' = Append(candidates, [given |-> given, value |-> done.value])
    /\ UNCHANGED << pattern_clusters, analyses, clusters, skillVars >>
    /\ DiscoveryFrame

\* a new database, or one holding a skill already
InitDiscovery ==
    /\ EngineInit(<< >>)
    /\ handlers = NoHandlers
    /\ calls = << >>
    /\ LoaderInit(<< >>)
    /\ known_patterns \in {{}, {compute_pattern_signature(<< 106 >>)}}
    /\ pattern_clusters = << >>
    /\ candidates = << >>
    /\ analyses = 0
    /\ clusters = << >>
    /\ SkillsInit([id \in SkillIds |-> CANDIDATE])

NextDiscovery ==
    \/ AnalyzePatterns
    \/ IdentifySkillCandidates

SpecDiscovery == InitDiscovery /\ [][NextDiscovery]_vars

\* register_skill(skill): skill.status = ACTIVE; the skill put in the manifest
\* under its id; _save_skill, INSERT OR REPLACE of the row; True, or False
\* when _save_skill raised
register_skill(skill_id, save_raises) ==
    /\ skill_status' = [skill_status EXCEPT ![skill_id] = ACTIVE]
    /\ discovered_skills' = discovered_skills \cup {skill_id}
    /\ skills_table' = IF save_raises THEN skills_table
                       ELSE Put(skills_table, skill_id, ACTIVE)
    /\ registrations' = Append(registrations,
                               [skill_id |-> skill_id, value |-> ~save_raises])

\* get_active_skills(): the skills of the manifest with status ACTIVE
get_active_skills ==
    {id \in discovered_skills : skill_status[id] = ACTIVE}

RegisterSkill ==
    /\ Len(registrations) < MaxRegistrations
    /\ \E skill_id \in SkillIds, save_raises \in BOOLEAN :
         register_skill(skill_id, save_raises)
    /\ UNCHANGED << known_patterns, pattern_clusters, candidates, analyses, clusters >>
    /\ DiscoveryFrame

\* a discovery on a new database and the skills of a client, candidates or
\* with the status an external validation has given them
InitSkills ==
    /\ EngineInit(<< >>)
    /\ handlers = NoHandlers
    /\ calls = << >>
    /\ LoaderInit(<< >>)
    /\ known_patterns = {}
    /\ pattern_clusters = << >>
    /\ candidates = << >>
    /\ analyses = 0
    /\ clusters = << >>
    /\ \E statuses \in [SkillIds -> SkillStatus] : SkillsInit(statuses)

NextSkills == RegisterSkill

SpecSkills == InitSkills /\ [][NextSkills]_vars

\* ------------------------------------------------- threads, step by step

\* the engine, the loader and the threads' calls as one value
World ==
    [plugins |-> plugins, capabilities_map |-> capabilities_map,
     sys_modules |-> sys_modules, loaded_modules |-> loaded_modules, calls |-> calls,
     loaded_text |-> loaded_text, files |-> files, ret |-> ret, ops |-> ops,
     loader_lock |-> loader_lock, frames |-> frames, generation |-> generation,
     shut |-> shut, capabilities |-> capabilities, metrics |-> metrics,
     skills_discovered |-> skills_discovered, skill_events |-> skill_events,
     lock |-> lock, updates |-> updates]

\* the state a step leaves
WorldBecomes(w) ==
    /\ Becomes(w)
    /\ files' = w.files /\ ret' = w.ret /\ ops' = w.ops
    /\ loader_lock' = w.loader_lock /\ frames' = w.frames
    /\ generation' = w.generation /\ shut' = w.shut
    /\ capabilities' = w.capabilities /\ metrics' = w.metrics
    /\ skills_discovered' = w.skills_discovered /\ skill_events' = w.skill_events
    /\ lock' = w.lock /\ updates' = w.updates
    /\ UNCHANGED << phase, objectives, gaps, strategies, learning_cycles, adaptations,
                    db, pc, local, results, handlers, writes, discoveryVars >>

\* a call in progress: the operation, where it is, its argument, the confidence
\* of an update, the record it holds (info) with its load_count and whether it
\* has an instance, the callbacks done, what its callee returned, and whether
\* its callee (shutdown, the entry point) raised
Frame(op, arg, value) ==
    [op |-> op,
     pc |-> IF op \in {"load", "update"} THEN "acquire" ELSE "get",
     arg |-> arg, value |-> value, held |-> -1, count |-> 0, instance |-> FALSE,
     n |-> 0, result |-> -1, stale |-> FALSE, failed |-> FALSE]

Top(w, t) == w.frames[t][Len(w.frames[t])]

SetTop(w, t, f) == [w EXCEPT !.frames[t][Len(w.frames[t])] = f]

Goto(w, t, label) == [w EXCEPT !.frames[t][Len(w.frames[t])].pc = label]

\* a call made from within the call in progress
Push(w, t, f) == [w EXCEPT !.frames[t] = Append(@, f)]

\* return: to the caller in the thread, or out of the thread
Return(w, t, result, value, raised, superseded) ==
    LET f == Top(w, t)
        rest == SubSeq(w.frames[t], 1, Len(w.frames[t]) - 1)
    IN  IF rest = << >>
        THEN [w EXCEPT !.frames[t] = << >>,
                       !.ret = [op |-> f.op, arg |-> f.arg, value |-> value,
                                raised |-> raised, stale |-> f.stale,
                                superseded |-> superseded]]
        ELSE [w EXCEPT !.frames[t] = [rest EXCEPT ![Len(rest)].result = result]]

\* self.registry.get(plugin_id) is the record the frame holds
StillRegistered(w, f) == f.arg \in DOMAIN w.plugins /\ w.generation[f.arg] = f.held

\* a record is registered: a new object under the id
Registered1(w, plugin_info) ==
    [register(w, plugin_info) EXCEPT !.generation[plugin_info.plugin_id] = @ + 1]

\* the handler train_metacognitive registers for every event it handles
Trainer == "trainer"

IsWired(event) == Trainer \in Range(handlers[event])

\* threading.RLock on a lock value
CanTake(l, t) == l.owner = NoThread \/ l.owner = t

Taken(l, t) == [owner |-> t, count |-> l.count + 1]

Released(l, t) ==
    IF l.count = 1 THEN [owner |-> NoThread, count |-> 0]
    ELSE [owner |-> t, count |-> l.count - 1]

\* load(module_path), step by step: with self._lock; the checksum, the import
\* and the instance; register and _save_plugin; the loaded callbacks (the
\* trainer's calls update_capability for each capability of the plugin); the
\* lock released on the way out. An exception leaves the with block: the ERROR
\* record is registered and the error callbacks called without the lock.
loadSteps(w, t, choice) ==
    LET f == Top(w, t)
    IN  CASE f.pc = "acquire" ->
               Goto([w EXCEPT !.loader_lock = Taken(@, t)], t, "import")
          [] f.pc = "import" ->
               LET raises == LoadRaises(f.arg)
                   imported == Imported(w, f.arg, raises)
               IN  IF raises = "none" THEN Goto(imported, t, "register")
                   ELSE Goto([imported EXCEPT !.loader_lock = Released(@, t)],
                             t, "failed")
          [] f.pc = "register" ->
               LET recorded == Registered1(w, LoadedInfo(f.arg, w.files[f.arg]))
               IN  SetTop([recorded EXCEPT
                              !.calls = @ \o Notify("plugin_loaded", f.arg),
                              !.loaded_text = Put(@, f.arg, w.files[f.arg])],
                          t, [f EXCEPT !.pc = "notify",
                                       !.held = recorded.generation[f.arg]])
          [] f.pc = "notify" ->
               LET caps == LoadedInfo(f.arg, w.loaded_text[f.arg]).capabilities
               IN  IF IsWired("plugin_loaded") /\ f.n < Len(caps)
                   THEN Push(SetTop(w, t, [f EXCEPT !.n = @ + 1]), t,
                             Frame("update", caps[f.n + 1],
                                   Num(Min(100, Get(w.capabilities, caps[f.n + 1], 0) + 10))))
                   ELSE Goto(w, t, "release")
          [] f.pc = "release" ->
               Return([w EXCEPT !.loader_lock = Released(@, t)],
                      t, f.held, TRUE, FALSE, FALSE)
          [] f.pc = "failed" ->
               Return([Registered1(w, ErrorInfo(f.arg, "error")) EXCEPT
                          !.calls = @ \o Notify("plugin_error", f.arg)],
                      t, -1, FALSE, FALSE, FALSE)

\* the record registry.get gave is held by the call
Hold(w, t) ==
    LET f == Top(w, t)
    IN  SetTop(w, t, [f EXCEPT !.held = w.generation[f.arg],
                               !.count = w.plugins[f.arg].load_count,
                               !.instance = w.plugins[f.arg].instance])

\* info.instance.shutdown() on the instance of the record held
ShutDown(w, t, raises) ==
    LET f == Top(w, t)
    IN  IF f.instance
        THEN SetTop([w EXCEPT !.shut = @ \cup {<< f.arg, f.held >>}],
                    t, [f EXCEPT !.failed = raises])
        ELSE w

\* info.load_count = n on the record `held` of a plugin: in the registry if
\* the record is registered, and for every call that holds the record
Counted(w, plugin_id, held, n) ==
    [w EXCEPT
        !.plugins = IF plugin_id \in DOMAIN @ /\ w.generation[plugin_id] = held
                    THEN [@ EXCEPT ![plugin_id].load_count = n] ELSE @,
        !.frames = [t \in DOMAIN @ |->
                       [i \in DOMAIN @[t] |->
                           IF @[t][i].arg = plugin_id /\ @[t][i].held = held
                              /\ @[t][i].op \in {"reload", "unload", "execute"}
                           THEN [@[t][i] EXCEPT !.count = n] ELSE @[t][i]]]]

\* reload(plugin_id), step by step: registry.get; shutdown under try/except;
\* the two del statements; self.load(info.module_path);
\* new_info.load_count = info.load_count + 1 on the record load returned
reloadSteps(w, t, choice) ==
    LET f == Top(w, t)
    IN  CASE f.pc = "get" ->
               IF f.arg \notin DOMAIN w.plugins
               THEN Return(w, t, -1, FALSE, FALSE, FALSE)
               ELSE Goto(Hold(w, t), t, "shutdown")
          [] f.pc = "shutdown" -> Goto(ShutDown(w, t, choice), t, "evict")
          [] f.pc = "evict" -> Goto(Evicted(w, f.arg), t, "load")
          [] f.pc = "load" -> Push(Goto(w, t, "count"), t, Frame("load", f.arg, Num(0)))
          [] f.pc = "count" ->
               IF f.result = -1 THEN Return(w, t, -1, FALSE, FALSE, FALSE)
               ELSE Return(Counted(w, f.arg, f.result, f.count + 1), t, f.result, TRUE,
                           FALSE, ~(f.arg \in DOMAIN w.plugins
                                    /\ w.generation[f.arg] = f.result))

\* unload(plugin_id), step by step: registry.get; inside the try block
\* shutdown, registry.unregister, the two del statements
unloadSteps(w, t, choice) ==
    LET f == Top(w, t)
    IN  CASE f.pc = "get" ->
               IF f.arg \notin DOMAIN w.plugins
               THEN Return(w, t, -1, FALSE, FALSE, FALSE)
               ELSE Goto(Hold(w, t), t, "shutdown")
          [] f.pc = "shutdown" ->
               IF f.instance /\ choice
               THEN Return(ShutDown(w, t, TRUE), t, -1, FALSE, FALSE, FALSE)
               ELSE Goto(ShutDown(w, t, FALSE), t, "unregister")
          [] f.pc = "unregister" ->
               IF f.arg \in DOMAIN w.plugins THEN Goto(unregister(w, f.arg), t, "evict")
               ELSE Goto(w, t, "evict")
          [] f.pc = "evict" -> Return(Evicted(w, f.arg), t, -1, TRUE, FALSE, FALSE)

\* an execute that looks its record up again when it counts
executeStepsRereading(w, t, choice) ==
    LET f == Top(w, t)
    IN  CASE f.pc = "get" ->
               IF CanExecute(w, f.arg) THEN Goto(Hold(w, t), t, "invoke")
               ELSE Return(w, t, -1, FALSE, TRUE, FALSE)
          [] f.pc = "invoke" ->
               SetTop(w, t, [f EXCEPT !.pc = "count",
                                      !.stale = << f.arg, w.generation[f.arg] >> \in w.shut,
                                      !.failed = choice])
          [] f.pc = "count" ->
               IF f.arg \in DOMAIN w.plugins
               THEN Return(execute(w, f.arg, f.failed).st, t, -1, ~f.failed, f.failed, FALSE)
               ELSE Return(w, t, -1, ~f.failed, f.failed, FALSE)

\* execute(plugin_id, input_data), step by step: registry.get and the three
\* checks; the entry point of info.instance called; info.execution_count or
\* info.error_count counted on the record held
executeSteps(w, t, choice) ==
    LET f == Top(w, t)
    IN  CASE f.pc = "get" ->
               IF CanExecute(w, f.arg) THEN Goto(Hold(w, t), t, "invoke")
               ELSE Return(w, t, -1, FALSE, TRUE, FALSE)
          [] f.pc = "invoke" ->
               SetTop(w, t, [f EXCEPT !.pc = "count",
                                      !.stale = << f.arg, f.held >> \in w.shut,
                                      !.failed = choice])
          [] f.pc = "count" ->
               IF StillRegistered(w, f)
               THEN Return(IF f.failed
                           THEN [w EXCEPT !.plugins[f.arg].error_count = @ + 1,
                                          !.plugins[f.arg].last_error = "execute"]
                           ELSE [w EXCEPT !.plugins[f.arg].execution_count = @ + 1],
                           t, -1, ~f.failed, f.failed, FALSE)
               ELSE Return(w, t, -1, ~f.failed, f.failed, TRUE)

\* the plugin file the code generator deploys for a discovered skill
Generated == [name |-> "beta", text |-> 1]

\* update_capability(domain, confidence), step by step: with self._lock; the
\* capability and the metric stored, the threshold tested; the callbacks (the
\* trainer's has the code generator deploy a plugin file, or fail to, and loads
\* the file); the lock released
updateSteps(w, t, choice) ==
    LET f == Top(w, t)
        old_value == Get(w.capabilities, f.arg, 0)
    IN  CASE f.pc = "acquire" -> Goto([w EXCEPT !.lock = Taken(@, t)], t, "store")
          [] f.pc = "store" ->
               LET stored == [w EXCEPT
                                 !.capabilities = Put(@, f.arg, Clamp(f.value)),
                                 !.metrics = Append(@, PerformanceMetric(f.arg, f.value,
                                                                         old_value)),
                                 !.updates = @ + 1]
               IN  IF ThresholdCrossed(old_value, f.value)
                   THEN Goto([stored EXCEPT
                                 !.skills_discovered = @ + 1,
                                 !.skill_events = Append(@, [domain |-> f.arg,
                                                             confidence |-> f.value]),
                                 !.calls = @ \o Notify("skill_discovered", f.arg)],
                             t, "notify")
                   ELSE Goto(stored, t, "release")
          [] f.pc = "notify" ->
               IF IsWired("skill_discovered") /\ choice
               THEN Push(Goto([w EXCEPT !.files = Put(@, Generated.name, Generated.text)],
                              t, "release"),
                         t, Frame("load", Generated.name, Num(0)))
               ELSE Goto(w, t, "release")
          [] f.pc = "release" ->
               Return([w EXCEPT !.lock = Released(@, t)], t, -1, TRUE, FALSE, FALSE)

\* the thread waits for a lock another thread holds
WaitsForLoader(w, t) ==
    /\ w.frames[t] # << >>
    /\ Top(w, t).op = "load" /\ Top(w, t).pc = "acquire"
    /\ ~CanTake(w.loader_lock, t)

WaitsForEngine(w, t) ==
    /\ w.frames[t] # << >>
    /\ Top(w, t).op = "update" /\ Top(w, t).pc = "acquire"
    /\ ~CanTake(w.lock, t)

\* the next step of the innermost call of thread t
Step(w, t, choice) ==
    CASE Top(w, t).op = "load" -> loadSteps(w, t, choice)
      [] Top(w, t).op = "reload" -> reloadSteps(w, t, choice)
      [] Top(w, t).op = "unload" -> unloadSteps(w, t, choice)
      [] Top(w, t).op = "execute" -> executeSteps(w, t, choice)
      [] Top(w, t).op = "update" -> updateSteps(w, t, choice)

ThreadStep(t) ==
    /\ frames[t] # << >>
    /\ ~WaitsForLoader(World, t)
    /\ ~WaitsForEngine(World, t)
    /\ \E choice \in BOOLEAN : WorldBecomes(Step(World, t, choice))

\* thread t calls an operation
Call(t, op, arg, value, limit) ==
    /\ frames[t] = << >>
    /\ ops < limit
    /\ WorldBecomes([World EXCEPT !.frames[t] = << Frame(op, arg, value) >>,
                                  !.ops = @ + 1])

\* two threads on one loader over a directory of one plugin that loads and
\* one that does not initialize
InitThreads ==
    /\ EngineInit(<< >>)
    /\ handlers = NoHandlers
    /\ calls = << >>
    /\ LoaderInit([name \in PluginIds |-> IF name = "alpha" THEN 0 ELSE 2])
    /\ DiscoveryInit

NextThreads ==
    \/ \E t \in Threads, op \in {"load", "reload", "unload", "execute"} :
          Call(t, op, "alpha", Num(0), MaxThreadCalls)
    \/ \E t \in Threads : ThreadStep(t)

SpecThreads == InitThreads /\ [][NextThreads]_vars

\* the callbacks of train_metacognitive: one handler for each event of the
\* engine and for plugin_loaded
TrainerCallbacks ==
    [event \in Events |-> IF event = "plugin_error" THEN << >> ELSE << Trainer >>]

\* the updates and loads of the threads of a trainer
WiredUpdates == { << "rf_fingerprinting", Num(60) >>, << "rf_fingerprinting", Num(20) >> }

InitWired ==
    /\ EngineInit(<< >>)
    /\ handlers = TrainerCallbacks
    /\ calls = << >>
    /\ LoaderInit([name \in {"alpha"} |-> 0])
    /\ DiscoveryInit

NextWired ==
    \/ \E t \in Threads, u \in WiredUpdates : Call(t, "update", u[1], u[2], MaxWiredCalls)
    \/ \E t \in Threads : Call(t, "load", "alpha", Num(0), MaxWiredCalls)
    \/ \E t \in Threads : ThreadStep(t)

SpecWired == InitWired /\ [][NextWired]_vars

\* the capabilities table of an engine that plugins have raised before: the
\* capabilities the plugins declare at 0.0, 0.4 or 0.5
ChainTables ==
    { [d \in {"network", "predictor"} |-> IF d = "network" THEN a ELSE b] :
        a \in {0, 40, 50}, b \in {0, 40, 50} }

\* thread t starts a call chain: the notifications on record are from here on
\* those of the chain
StartChain(t, op, arg, value) ==
    /\ frames[t] = << >>
    /\ ops < MaxChainCalls
    /\ WorldBecomes([World EXCEPT !.frames[t] = << Frame(op, arg, value) >>,
                                  !.ops = @ + 1,
                                  !.skill_events = << >>,
                                  !.calls = << >>])

InitChain ==
    /\ \E stored \in ChainTables : EngineInit(stored)
    /\ handlers = TrainerCallbacks
    /\ calls = << >>
    /\ LoaderInit([name \in {"alpha"} |-> 0])
    /\ DiscoveryInit

\* one thread of a trainer: an update or a load, and the calls they lead to
NextChain ==
    \/ \E d \in {"network", "predictor", "rf_fingerprinting"}, c \in {Num(20), Num(60)} :
          StartChain("t1", "update", d, c)
    \/ StartChain("t1", "load", "alpha", Num(0))
    \/ ThreadStep("t1")

\* the thread goes on as long as it has a call in progress
SpecChain == InitChain /\ [][NextChain]_vars /\ WF_vars(ThreadStep("t1"))

\* ------------------------------------------- the engine and the loader wired

\* the number of callbacks registered so far
RECURSIVE Registered(_)
Registered(events) ==
    IF events = {} THEN 0
    ELSE LET e == CHOOSE x \in events : TRUE
         IN  Len(handlers[e]) + Registered(events \ {e})

\* a callback is registered for an event, before the first cycle, update or load
SetupCallback(event) ==
    /\ Registered(Events) < MaxHandlers
    /\ learning_cycles = 0 /\ updates = 0 /\ ops = 0
    /\ \A t \in Threads : pc[t] = "idle"
    /\ handlers' = RegisterCallback(event, HandlerIds[Registered(Events) + 1])
    /\ UNCHANGED << engineVars, calls, loaderVars, discoveryVars >>

\* the driver loads a plugin between cycles
NotifyLoad(name) ==
    /\ ops < MaxNotifyLoads
    /\ pc["t1"] = "idle"
    /\ Load(name)

InitNotify ==
    /\ EngineInit(<< >>)
    /\ handlers = NoHandlers
    /\ calls = << >>
    /\ LoaderInit([name \in PluginIds |-> IF name = "alpha" THEN 0 ELSE 2])
    /\ DiscoveryInit

NextNotify ==
    \/ \E event \in Events : SetupCallback(event)
    \/ run_cycle("t1", MaxNotifyCycles)
    \/ CycleUpdate("t1", MaxNotifyUpdates)
    \/ \E name \in PluginIds : NotifyLoad(name)

SpecNotify == InitNotify /\ [][NextNotify]_vars

\* ------------------------------------------------------------------ claims

LastMetric == metrics[Len(metrics)]

\* C1: after any sequence of update_capability calls, whatever the inputs, every
\* stored confidence lies in [0,1]; an input above 1 is stored as 1 and an
\* input below 0 is stored as 0.
C1_StoredConfidenceClamped ==
    /\ \A d \in DOMAIN capabilities : 0 <= capabilities[d] /\ capabilities[d] <= 100
    /\ updates > 0 =>
         LET given == LastMetric.value
             stored == capabilities[LastMetric.capability_domain]
         IN  /\ (~given.nan /\ given.x > 100) => stored = 100
             /\ (~given.nan /\ given.x < 0) => stored = 0
             /\ (~given.nan /\ 0 <= given.x /\ given.x <= 100) => stored = given.x

\* an update of 1.7 after one of -0.3 has been stored
C1_Witness ==
    /\ updates > 1
    /\ LastMetric.value = Num(170)
    /\ capabilities[LastMetric.capability_domain] = 100
    /\ \E i \in 1..Len(metrics) : metrics[i].value = Num(-30) /\ metrics[i].previous > 0

\* the values the updates of one domain were called with, when all the updates
\* so far were of that domain
UpdatesWere(d, values) ==
    /\ Len(metrics) = Len(values)
    /\ \A i \in 1..Len(metrics) :
         metrics[i].capability_domain = d /\ metrics[i].value = Num(values[i])

\* the update a step made fired the notification (and counted a skill) once
FiredOnce ==
    /\ skills_discovered' = skills_discovered + 1
    /\ Len(skill_events') = Len(skill_events) + 1
    /\ SubSeq(skill_events', 1, Len(skill_events)) = skill_events
    /\ skill_events'[Len(skill_events')].domain = metrics'[Len(metrics')].capability_domain

\* the stored value of the updated domain before and after an update step
UpdatedDomain == metrics'[Len(metrics')].capability_domain

StoredBefore == Get(capabilities, UpdatedDomain, 0)

StoredAfter == capabilities'[UpdatedDomain]

\* C2: the skill-threshold notification and the skills_discovered increment
\* happen exactly once for each update that takes the stored value of its domain
\* from below 0.5 to 0.5 or more, and for no other update: 0.2 -> 0.6 -> 0.8
\* fires once, 0.6 -> 0.3 -> 0.6 twice.
C2_FiresOncePerUpwardCrossing ==
    /\ [](\A d \in UpdateDomains :
            /\ UpdatesWere(d, << 20, 60, 80 >>) => skills_discovered = 1
            /\ UpdatesWere(d, << 60, 30, 60 >>) => skills_discovered = 2)
    /\ [][updates' = updates + 1 =>
            IF StoredBefore < 50 /\ StoredAfter >= 50
            THEN FiredOnce
            ELSE UNCHANGED << skills_discovered, skill_events >>]_vars

\* C2 for the updates whose argument is a number: the same, and an update whose
\* argument is nan never fires (it stores 1.0, also over a value below 0.5)
C2_FiresOncePerCrossingOfNumbers ==
    [][updates' = updates + 1 =>
          IF StoredBefore < 50 /\ StoredAfter >= 50 /\ ~metrics'[Len(metrics')].value.nan
          THEN FiredOnce
          ELSE UNCHANGED << skills_discovered, skill_events >>]_vars

\* the threads inside a cycle: the lock taken, the result not yet returned
InCycle(t) == pc[t] \in {"reflect", "plan", "evaluate", "adapt", "save", "return"}

PhaseOrder == << REFLECTING, PLANNING, EVALUATING, ADAPTING >>

IsPrefix(s, w) == Len(s) <= Len(w) /\ s = SubSeq(w, 1, Len(s))

\* C3 as stated: every invocation of run_cycle takes the phase through
\* REFLECTING, PLANNING, EVALUATING, ADAPTING, one full traversal.
C3_FullTraversalEveryInvocation ==
    \A t \in Threads : pc[t] = "return" => local[t].visited = PhaseOrder

\* C3, amended: in every invocation of run_cycle the phase takes the values
\* REFLECTING, PLANNING, EVALUATING, ADAPTING in that order, all four when no
\* phase raises and those up to the raising phase when one does; EXECUTING is
\* never entered; the first phase of a cycle is REFLECTING whatever phase the
\* cycle before ended or aborted in.
C3_PhasesInOrder ==
    /\ phase # EXECUTING
    /\ \A t \in Threads :
         /\ InCycle(t) =>
              /\ IsPrefix(local[t].visited, PhaseOrder)
              /\ local[t].visited # << >> => phase = local[t].visited[Len(local[t].visited)]
         /\ pc[t] = "plan" => phase = REFLECTING
         /\ pc[t] = "return" =>
              IF results[t].error
              THEN local[t].visited # << >>
              ELSE local[t].visited = PhaseOrder

\* a cycle has entered REFLECTING after a cycle that aborted in PLANNING
C3_Witness ==
    \E t \in Threads :
        /\ pc[t] = "plan"
        /\ local[t].phase_at_begin = PLANNING
        /\ phase = REFLECTING

\* C4: two run_cycle invocations from different threads never overlap, one's
\* phases and state save are all done before the other's first phase begins,
\* and while a cycle runs no update_capability of another thread takes effect.
C4_CyclesSerialized ==
    /\ [](\A t, u \in Threads : t # u => ~(InCycle(t) /\ InCycle(u)))
    /\ [][(\E t \in Threads : InCycle(t) /\ InCycle(t)') =>
             UNCHANGED << capabilities, metrics, skills_discovered, skill_events >>]_vars

\* one thread is between two phases of its cycle while the other has called
\* run_cycle and waits for the lock
C4_Witness ==
    \E t, u \in Threads :
        /\ pc[t] = "evaluate"
        /\ pc[u] = "acquire"
        /\ updates > 0

\* the gap of results["gaps_identified"] for a domain
GapFor(gs, d) == gs[CHOOSE k \in 1..Len(gs) : gs[k].domain = d]

Domains(s) == {s[i].domain : i \in 1..Len(s)}

\* a severity num/den equals (target - current)/target
IsRelativeGap(sev, target, current) == sev.num * target = (target - current) * sev.den

\* C5: REFLECT emits exactly one gap for each priority domain whose confidence
\* is strictly below its target and none for any other domain; each gap has
\* severity (target - current)/target, which is in (0,1] and is 1 when the
\* confidence is 0.
C5_ReflectEmitsGaps ==
    \A t \in Threads : pc[t] = "plan" =>
        LET found == results[t].gaps_identified
        IN  /\ \A i \in 1..Len(priority_domains) :
                 LET p == priority_domains[i]
                     n == Cardinality({k \in 1..Len(found) : found[k].domain = p.domain})
                 IN  n = IF Get(capabilities, p.domain, 0) < p.target THEN 1 ELSE 0
            /\ \A k \in 1..Len(found) :
                 \E i \in 1..Len(priority_domains) :
                     LET p == priority_domains[i]
                         current == Get(capabilities, p.domain, 0)
                         sev == found[k].severity
                     IN  /\ p.domain = found[k].domain
                         /\ sev.den > 0
                         /\ IsRelativeGap(sev, p.target, current)
                         /\ 0 < sev.num /\ sev.num <= sev.den
                         /\ current = 0 => sev.num = sev.den
            /\ Len(gaps) >= Len(found)
            /\ SubSeq(gaps, Len(gaps) - Len(found) + 1, Len(gaps)) = found
            /\ local[t].gaps = [k \in 1..Len(found) |-> Len(gaps) - Len(found) + k]

\* REFLECT has run on seven gaps, one of them of a domain at 0, with one
\* priority domain exactly at its target and two domains off the list at 0.10
C5_Witness ==
    \E t \in Threads :
        /\ pc[t] = "plan"
        /\ Len(results[t].gaps_identified) = 7
        /\ capabilities["mesh_routing"] = 80
        /\ capabilities["swarm_coordination"] = 10
        /\ capabilities["rf_fingerprinting"] = 0

\* C6: the objectives PLAN creates are those for the min(5, n) gaps of highest
\* severity, created in descending order of severity; of seven gaps of
\* severities 0.9 .. 0.3 the five highest get objectives, the two lowest none.
C6_PlanTakesTopFive ==
    \A t \in Threads : pc[t] = "evaluate" =>
        LET found == results[t].gaps_identified
            made == results[t].objectives_created
            sev(d) == GapFor(found, d).severity
        IN  /\ Len(made) = Min(5, Len(found))
            /\ Domains(made) \subseteq Domains(found)
            /\ Cardinality(Domains(made)) = Len(made)
            /\ \A i, j \in 1..Len(made) :
                 i < j => ~SeverityGreater(sev(made[j].domain), sev(made[i].domain))
            /\ \A d \in Domains(found) \ Domains(made), i \in 1..Len(made) :
                 ~SeverityGreater(sev(d), sev(made[i].domain))
            /\ Len(objectives) >= Len(made)
            /\ SubSeq(objectives, Len(objectives) - Len(made) + 1, Len(objectives)) = made
            /\ (\A k \in 3..9 : \E g \in Range(found) : g.severity.num * 10 = k * g.severity.den)
                 => Domains(found) \ Domains(made) = {"4g_lte", "rf_fingerprinting"}

\* PLAN has run on the seven gaps of severities 0.9 .. 0.3
C6_Witness ==
    \E t \in Threads :
        /\ pc[t] = "evaluate"
        /\ Len(results[t].gaps_identified) = 7
        /\ Len(results[t].objectives_created) = 5
        /\ \A k \in 3..9 : \E g \in Range(results[t].gaps_identified) :
                               g.severity.num * 10 = k * g.severity.den

\* the positions at which a step raised a gap's attempt counter, in list order
RECURSIVE Ascending(_)
Ascending(S) ==
    IF S = {} THEN << >>
    ELSE LET m == CHOOSE x \in S : \A y \in S : x <= y
         IN  << m >> \o Ascending(S \ {m})

Bumped ==
    Ascending({i \in 1..Len(gaps) :
                 gaps'[i].resolution_attempts # gaps[i].resolution_attempts})

\* C7: a strategy synthesized in ADAPT for a gap with a prior attempts has
\* learning-rate multiplier 1 + 0.5a (1.0 for a first-time gap), and the gap's
\* attempt counter is a + 1 right after the strategy is made.
C7_MultiplierFollowsAttempts ==
    [][(strategies' # strategies \/ Bumped # << >>) =>
          /\ Len(gaps') = Len(gaps)
          /\ Len(strategies') = Len(strategies) + Len(Bumped)
          /\ \A k \in 1..Len(Bumped) :
               LET a == gaps[Bumped[k]].resolution_attempts
                   made == strategies'[Len(strategies) + k]
               IN  /\ made.target_domain = gaps[Bumped[k]].domain
                   /\ made.learning_rate_multiplier = 100 + 50 * a
                   /\ a = 0 => made.learning_rate_multiplier = 100
                   /\ gaps'[Bumped[k]].resolution_attempts = a + 1]_vars

\* a second cycle's ADAPT has made a strategy of multiplier 1.5 for a gap
\* attempted once before
C7_Witness ==
    /\ \E k \in 1..Len(strategies) : strategies[k].learning_rate_multiplier = 150
    /\ \E i \in 1..Len(gaps) : gaps[i].resolution_attempts = 2

\* the first cycle of an engine with RF fingerprinting at 0.50 and every other
\* priority domain at or above its target has come to its return without a raise
RfScenarioDone(t) ==
    /\ pc[t] = "return"
    /\ ~results[t].error
    /\ results[t].cycle_id = 1
    /\ Get(capabilities, "rf_fingerprinting", 0) = 50
    /\ \A i \in 1..Len(priority_domains) :
         priority_domains[i].domain # "rf_fingerprinting" =>
             Get(capabilities, priority_domains[i].domain, 0) >= priority_domains[i].target

\* C8: on a fresh engine with RF fingerprinting at 0.50 and every other priority
\* domain at or above its target, one run_cycle reports exactly one gap, for
\* rf_fingerprinting with severity 1/3, and exactly one objective, of target 0.60.
C8_RfScenarioGapAndObjective ==
    \A t \in Threads : RfScenarioDone(t) =>
        /\ Len(results[t].gaps_identified) = 1
        /\ results[t].gaps_identified[1].domain = "rf_fingerprinting"
        /\ results[t].gaps_identified[1].severity.num * 3
              = results[t].gaps_identified[1].severity.den
        /\ Len(results[t].objectives_created) = 1
        /\ results[t].objectives_created[1].domain = "rf_fingerprinting"
        /\ results[t].objectives_created[1].target_value = 60

C8_Witness == \E t \in Threads : RfScenarioDone(t) /\ gaps # << >>

\* C9 as stated: in that scenario the result reports zero adaptations.
C9_NoAdaptations ==
    \A t \in Threads : RfScenarioDone(t) => results[t].adaptations_made = << >>

\* C9, amended: in that scenario the result reports exactly one adaptation, the
\* strategy for rf_fingerprinting with learning-rate multiplier 1.0, and the gap
\* then has one resolution attempt.
C9_OneAdaptation ==
    \A t \in Threads : RfScenarioDone(t) =>
        /\ Len(results[t].adaptations_made) = 1
        /\ results[t].adaptations_made[1].target_domain = "rf_fingerprinting"
        /\ results[t].adaptations_made[1].learning_rate_multiplier = 100
        /\ strategies = results[t].adaptations_made
        /\ adaptations = 1
        /\ Len(gaps) = 1 /\ gaps[1].resolution_attempts = 1

C9_Witness == \E t \in Threads : RfScenarioDone(t) /\ strategies # << >>

\* what stays of a list entry whatever is done to it later
GapKept(g, h) == g.domain = h.domain /\ g.severity = h.severity

ObjectiveKept(o, q) ==
    o.domain = q.domain /\ o.target_value = q.target_value /\ o.priority = q.priority

StrategyKept(x, y) ==
    /\ x.target_domain = y.target_domain
    /\ x.learning_rate_multiplier = y.learning_rate_multiplier

\* nothing appended to the engine's lists is taken back by a step
ProgressKept ==
    /\ Len(gaps') >= Len(gaps)
    /\ \A i \in 1..Len(gaps) : GapKept(gaps[i], gaps'[i])
    /\ Len(objectives') >= Len(objectives)
    /\ \A i \in 1..Len(objectives) : ObjectiveKept(objectives[i], objectives'[i])
    /\ Len(strategies') >= Len(strategies)
    /\ \A i \in 1..Len(strategies) : StrategyKept(strategies[i], strategies'[i])

\* C10: when a phase raises, run_cycle does not propagate the error: it returns
\* a result whose error field is set, the remaining phases of the cycle are not
\* executed, and every gap, objective and strategy appended before the failure
\* is still in the engine state afterwards.
C10_RaiseIsCaptured ==
    /\ [](\A t \in Threads :
            /\ local[t].raised => pc[t] = "return" /\ results[t].error
            /\ pc[t] = "return" =>
                 /\ results[t].error = local[t].raised
                 /\ results[t].error = ~local[t].saved
                 /\ local[t].saved => local[t].visited = PhaseOrder)
    /\ [][ProgressKept]_vars
    /\ [][\A t \in Threads :
            pc[t] = "return" /\ results[t].error =>
                /\ pc'[t] \in {"return", "idle"}
                /\ UNCHANGED << gaps, objectives, strategies, phase >>]_vars

\* PLAN raised after its first objective: the result has the error and no
\* objectives, the engine has the gaps of REFLECT and that objective
C10_Witness ==
    \E t \in Threads :
        /\ pc[t] = "return"
        /\ results[t].error
        /\ local[t].visited = << REFLECTING, PLANNING >>
        /\ results[t].objectives_created = << >>
        /\ Len(objectives) = 1
        /\ Len(gaps) = Len(results[t].gaps_identified)
        /\ Len(gaps) > 1

\* C11: every run_cycle invocation ends with the state being saved, the cycle
\* that completed its phases and the cycle in which a phase raised alike.
C11_EveryCycleEndsWithSave ==
    \A t \in Threads : pc[t] = "return" => local[t].saved

\* what the code does: _save_state is the last statement of the try block, so it
\* runs at the end of exactly the cycles in which no phase raised
C11_SavedUnlessRaised ==
    \A t \in Threads : pc[t] = "return" => (local[t].saved <=> ~local[t].raised)

\* C13: over any sequence of register and unregister calls, a plugin id the
\* registry does not hold (unregister returned true and the id has not been
\* registered again) is in get_by_capability(c) for no capability c, and
\* get_by_capability never raises; when every plugin has been unregistered,
\* get_by_capability is empty for every capability.
C13_UnregisteredIdsAreNotReturned ==
    /\ \A c \in Capabilities :
         /\ ~get_by_capability(c).raised
         /\ Range(get_by_capability(c).value) \subseteq DOMAIN plugins
    /\ (ret.op = "unregister" /\ ret.value) =>
         \A c \in Capabilities : ret.arg \notin Range(get_by_capability(c).value)
    /\ plugins = << >> => \A c \in Capabilities : get_by_capability(c).value = << >>

\* a plugin registered under two capabilities, registered again under one and
\* then unregistered: the capability it was first indexed under still lists it
C13_Witness ==
    /\ ret.op = "unregister" /\ ret.value
    /\ plugins = << >>
    /\ \E c \in Capabilities : ret.arg \in Range(IndexedIdsUnfiltered(c))

\* the files discover() is to return by the registry and the directory as they are
NewOrChanged ==
    SelectSeq(Glob, LAMBDA name :
        /\ ~IsPrivate(name)
        /\ \/ name \notin DOMAIN plugins
           \/ plugins[name].file_checksum # compute_checksum(files[name]))

\* a step that is a call of discover()
DiscoverStep == ops' = ops + 1 /\ ret'.op = "discover"

\* the non-underscore files a load of which has succeeded
LoadedFiles == {name \in DOMAIN loaded_text \cap DOMAIN files : ~IsPrivate(name)}

\* those that are as they were when a load of them last succeeded
Unmodified == {name \in LoadedFiles : files[name] = loaded_text[name]}

\* those changed since a load of them last succeeded
Modified == {name \in LoadedFiles : files[name] # loaded_text[name]}

\* C14 as stated: discover() returns a non-underscore file exactly when the
\* registry has no entry for its id or the entry's checksum differs from the
\* file's; after a successful load an unmodified file is returned by no later
\* discover(), and after any change of its content it is returned again.
C14_DiscoverReturnsNewOrChanged ==
    [][DiscoverStep =>
          /\ ret'.value = NewOrChanged
          /\ \A name \in Unmodified : name \notin Range(ret'.value)
          /\ \A name \in Modified : name \in Range(ret'.value)]_vars

\* C14, amended: discover() returns a non-underscore file exactly when the
\* registry has no entry for its id or the entry's checksum differs from the
\* file's; an unmodified file is not returned as long as the registry holds the
\* ACTIVE record of its last successful load, and a file changed since then is
\* returned when the change has changed its checksum.
C14_DiscoverFollowsRegistryChecksum ==
    [][DiscoverStep =>
          /\ ret'.value = NewOrChanged
          /\ \A name \in Unmodified :
                (name \in DOMAIN plugins /\ plugins[name].status = ACTIVE)
                    => name \notin Range(ret'.value)
          /\ \A name \in Modified :
                compute_checksum(files[name]) # compute_checksum(loaded_text[name])
                    => name \in Range(ret'.value)]_vars

\* discover() after two loads and a write: the unmodified plugin is left out,
\* the changed one is returned
C14_Witness ==
    /\ ret.op = "discover"
    /\ \E name \in Unmodified : name \in DOMAIN plugins /\ name \notin Range(ret.value)
    /\ \E name \in Modified : name \in Range(ret.value)

\* a step that is a call of load, and the plugin id of its path
LoadStep == ops' = ops + 1 /\ ret'.op = "load"

\* the callback invocations a step has added
NewCalls == SubSeq(calls', Len(calls) + 1, Len(calls'))

\* every callback registered for an event called once with a subject, in the
\* order of registration
CalledOnceEach(invocations, event, subject) ==
    /\ Len(invocations) = Len(handlers[event])
    /\ \A i \in 1..Len(invocations) :
         /\ invocations[i].event = event
         /\ invocations[i].handler = handlers[event][i]
         /\ invocations[i].subject = subject

LoadAllStep == ops' = ops + 1 /\ ret'.op = "load_all"

\* C16: load_all attempts every discovered file whatever failed before it in
\* the batch and returns a map with one entry for each discovered plugin id,
\* true exactly for the ids whose registry record is ACTIVE afterwards; three
\* files of which one is invalid give two true entries and one false entry,
\* and an ERROR record for the failing id.
C16_LoadAllAttemptsEveryFile ==
    [][LoadAllStep =>
          /\ ~ret'.raised
          /\ ret'.discovered = NewOrChanged
          /\ DOMAIN ret'.value = Range(NewOrChanged)
          /\ \A id \in Range(NewOrChanged) :
                /\ id \in DOMAIN plugins'
                /\ ret'.value[id] = (plugins'[id].status = ACTIVE)
                /\ ret'.value[id] = (LoadRaises(id) = "none")
                /\ ~ret'.value[id] =>
                      /\ plugins'[id].status = ERROR
                      /\ plugins'[id].last_error = LoadRaises(id)
          /\ (Len(NewOrChanged) = 3
                 /\ Cardinality({id \in Range(NewOrChanged) : LoadRaises(id) # "none"}) = 1)
                => Cardinality({id \in DOMAIN ret'.value : ret'.value[id]}) = 2]_vars

\* three files, the second invalid: the map is true, false, true and the plugin
\* after the failing one is ACTIVE
C16_Witness ==
    /\ ret.op = "load_all"
    /\ ret.discovered = << "alpha", "beta", "gamma" >>
    /\ ret.value["alpha"] /\ ~ret.value["beta"] /\ ret.value["gamma"]
    /\ plugins["beta"].status = ERROR
    /\ plugins["gamma"].status = ACTIVE

\* a step that is a call of unload for a plugin the registry holds
UnloadStep == ops' = ops + 1 /\ ret'.op = "unload" /\ ret'.arg \in DOMAIN plugins

\* C17: unload(id) of a registered plugin is best-effort about shutdown:
\* whether or not the shutdown of the instance raises, after unload the plugin
\* id is in neither the registry nor the module cache and the call has
\* reported success.
C17_UnloadEvictsWhateverShutdownDoes ==
    [][UnloadStep =>
          /\ ret'.value
          /\ ret'.arg \notin DOMAIN plugins'
          /\ ret'.arg \notin loaded_modules'
          /\ ret'.arg \notin sys_modules']_vars

\* what the code does: shutdown, unregister and the eviction are in one try
\* block, so a shutdown that raises leaves the plugin registered and cached
\* and makes unload return False; otherwise the plugin is removed
C17_UnloadStopsAtShutdownError ==
    [][UnloadStep =>
          IF ret'.shutdown_raised
          THEN /\ ~ret'.value
               /\ UNCHANGED << plugins, capabilities_map, sys_modules, loaded_modules >>
          ELSE /\ ret'.value
               /\ ret'.arg \notin DOMAIN plugins'
               /\ ret'.arg \notin loaded_modules'
               /\ ret'.arg \notin sys_modules']_vars

\* a step that is a call of execute
ExecuteStep == ops' = ops + 1 /\ ret'.op = "execute"

\* the records of the other plugins are as they were
OthersUnchanged(plugin_id) ==
    /\ DOMAIN plugins' = DOMAIN plugins
    /\ \A other \in DOMAIN plugins \ {plugin_id} : plugins'[other] = plugins[other]

\* C18: an execute call on a plugin that is ACTIVE with an instance changes
\* exactly one counter by exactly one: execution_count when it succeeds,
\* error_count when it fails, last_error being set and the failure raised to the
\* caller; an execute call on an unknown, non-ACTIVE or instance-less plugin
\* raises and leaves both counters and last_error as they were.
C18_ExecuteCountsOnce ==
    [][ExecuteStep =>
          LET id == ret'.arg
          IN  IF CanExecute(Loader, id)
              THEN /\ OthersUnchanged(id)
                   /\ IF ret'.raised
                      THEN /\ plugins'[id] =
                                [plugins[id] EXCEPT !.error_count = @ + 1,
                                                    !.last_error = "execute"]
                      ELSE /\ plugins'[id] =
                                [plugins[id] EXCEPT !.execution_count = @ + 1]
              ELSE ret'.raised /\ plugins' = plugins]_vars

\* one plugin executed twice, the first call returning and the second raising
C18_Witness ==
    /\ ret.op = "execute" /\ ret.raised
    /\ ret.arg \in DOMAIN plugins
    /\ plugins[ret.arg].execution_count = 1
    /\ plugins[ret.arg].error_count = 1
    /\ plugins[ret.arg].last_error = "execute"

\* a step that is a call of execute_capability
ExecuteCapabilityStep == ops' = ops + 1 /\ ret'.op = "execute_capability"

\* the ACTIVE plugins a capability is indexed under, in the order of the index
ActiveUnder(capability) ==
    SelectSeq(Get(capabilities_map, capability, << >>),
              LAMBDA pid : pid \in DOMAIN plugins /\ plugins[pid].status = ACTIVE)

\* C19: execute_capability never raises because a plugin fails; it returns
\* exactly one record for each ACTIVE plugin indexed under the capability and
\* none for an ERROR or unregistered plugin, each record marking the success or
\* the failure of that plugin, and the plugins after a failing one are executed.
C19_FanOutIsolatesFailures ==
    [][ExecuteCapabilityStep =>
          LET ids == ActiveUnder(ret'.arg)
          IN  /\ ~ret'.raised
              /\ Len(ret'.value) = Len(ids)
              /\ \A i \in 1..Len(ids) :
                    /\ ret'.value[i].plugin_id = ids[i]
                    /\ ret'.value[i].success = (ids[i] \notin ret'.failing)
                    /\ plugins'[ids[i]] =
                          IF ids[i] \in ret'.failing
                          THEN [plugins[ids[i]] EXCEPT !.error_count = @ + 1,
                                                       !.last_error = "execute"]
                          ELSE [plugins[ids[i]] EXCEPT !.execution_count = @ + 1]
              /\ \A id \in DOMAIN plugins \ Range(ids) : plugins'[id] = plugins[id]]_vars

\* two ACTIVE plugins under one capability, the first failing: a failure record
\* and then a success record
C19_Witness ==
    /\ ret.op = "execute_capability"
    /\ Len(ret.value) = 2
    /\ ~ret.value[1].success /\ ret.value[2].success
    /\ plugins[ret.value[2].plugin_id].execution_count = 1

\* the invocations of one delivery, and of a run of deliveries one per subject
Delivered(invocations, from, event, subject) ==
    \A i \in 1..Len(handlers[event]) :
        /\ invocations[from + i].event = event
        /\ invocations[from + i].handler = handlers[event][i]
        /\ invocations[from + i].subject = subject

DeliveredEach(invocations, event, subjects) ==
    /\ Len(invocations) = Len(subjects) * Len(handlers[event])
    /\ \A k \in 1..Len(subjects) :
         Delivered(invocations, (k - 1) * Len(handlers[event]), event, subjects[k])

\* what a step has appended to the lists of the engine
NewGaps == SubSeq(gaps', Len(gaps) + 1, Len(gaps'))

NewStrategies == SubSeq(strategies', Len(strategies) + 1, Len(strategies'))

\* the events a step raises, with their subjects in order
RaisedEvent ==
    IF Len(gaps') > Len(gaps)
    THEN [event |-> "gap_identified",
          subjects |-> [i \in 1..Len(NewGaps) |-> NewGaps[i].domain]]
    ELSE IF Len(strategies') > Len(strategies)
    THEN [event |-> "adaptation",
          subjects |-> [i \in 1..Len(NewStrategies) |-> NewStrategies[i].target_domain]]
    ELSE IF skills_discovered' # skills_discovered
    THEN [event |-> "skill_discovered",
          subjects |-> << metrics'[Len(metrics')].capability_domain >>]
    ELSE IF ops' # ops /\ ret'.op = "load"
    THEN [event |-> IF ret'.value THEN "plugin_loaded" ELSE "plugin_error",
          subjects |-> << ret'.arg >>]
    ELSE [event |-> "gap_identified", subjects |-> << >>]

\* a callback that raised was called in the step
SomeCallbackRaised == \E i \in 1..Len(NewCalls) : NewCalls[i].raised

\* C12: for every event (gap identified, skill threshold crossed, adaptation
\* made, plugin loaded, plugin error) every callback registered for it is
\* called exactly once, in the order of registration; a callback that raises
\* keeps neither the later callbacks from being called nor the cycle, update or
\* load that raised the event from going on.
C12_CallbacksCalledOnceInOrder ==
    [][/\ DeliveredEach(NewCalls, RaisedEvent.event, RaisedEvent.subjects)
       /\ SomeCallbackRaised =>
            /\ \A t \in Threads : results'[t].error = local'[t].raised
            /\ skills_discovered' # skills_discovered =>
                  /\ Len(metrics') = Len(metrics) + 1
                  /\ capabilities'[metrics'[Len(metrics')].capability_domain]
                        = Clamp(metrics'[Len(metrics')].value)
            /\ ops' # ops =>
                  /\ ~ret'.raised
                  /\ plugins'[ret'.arg].status = IF ret'.value THEN ACTIVE ELSE ERROR]_vars

\* two callbacks registered for gaps, the first raising: REFLECT has found the
\* eight gaps of a new engine and called both callbacks for each, the cycle
\* going on to PLAN
C12_Witness ==
    /\ handlers["gap_identified"] = << "h_raises", "h1" >>
    /\ pc["t1"] = "plan"
    /\ Len(gaps) = 8
    /\ Len(calls) = 16
    /\ calls[15].raised /\ ~calls[16].raised /\ calls[16].subject = gaps[8].domain

IdentifyStep == Len(candidates') = Len(candidates) + 1

\* the call an IdentifyStep has made, and the list it went through
LastCall == candidates'[Len(candidates')]

ListOf(call) ==
    IF call.given.none
    THEN SelectNovel(Values(pattern_clusters, DOMAIN pattern_clusters))
    ELSE call.given.list

\* every candidate returned so far, in the order returned
RECURSIVE Proposed(_, _)
Proposed(returned, n) ==
    IF n = 0 THEN << >> ELSE Proposed(returned, n - 1) \o returned[n].value

\* C20: over any sequence of analyze_patterns and identify_skill_candidates
\* calls only clusters flagged novel become candidates and each signature is
\* proposed at most once: a candidate's signature is known as soon as it is
\* proposed, all candidates ever returned have pairwise distinct signatures,
\* also within one call, and a second call with the same clusters returns none.
C20_EachSignatureProposedOnce ==
    [][IdentifyStep =>
        LET all == Proposed(candidates', Len(candidates'))
        IN  /\ \A i \in 1..Len(LastCall.value) :
                 /\ \E k \in 1..Len(ListOf(LastCall)) :
                      /\ ListOf(LastCall)[k].is_novel
                      /\ ListOf(LastCall)[k].centroid = LastCall.value[i].pattern_features
                 /\ LastCall.value[i].pattern_signature
                      = compute_pattern_signature(LastCall.value[i].pattern_features)
                 /\ LastCall.value[i].pattern_signature \notin known_patterns
            /\ \A i \in 1..Len(all) : all[i].pattern_signature \in known_patterns'
            /\ \A i, j \in 1..Len(all) :
                 i # j => all[i].pattern_signature # all[j].pattern_signature
            /\ \A k \in 1..Len(ListOf(LastCall)) :
                 (/\ ListOf(LastCall)[k].is_novel
                  /\ compute_pattern_signature(ListOf(LastCall)[k].centroid)
                       \notin known_patterns)
                 => \E i \in 1..Len(LastCall.value) :
                      LastCall.value[i].pattern_signature
                        = compute_pattern_signature(ListOf(LastCall)[k].centroid)
            /\ identify_skill_candidates(known_patterns', pattern_clusters',
                                          LastCall.given).value = << >>]_vars

\* an analysis has found two novel clusters whose centroids round to the same
\* signature; the call on them has returned one candidate, and the same call
\* made again has returned none
C20_Witness ==
    /\ Len(candidates) = 2
    /\ Len(clusters) = 2
    /\ clusters[1].is_novel /\ clusters[2].is_novel
    /\ clusters[1].centroid # clusters[2].centroid
    /\ compute_pattern_signature(clusters[1].centroid)
         = compute_pattern_signature(clusters[2].centroid)
    /\ candidates[1].given = Given(clusters)
    /\ Len(candidates[1].value) = 1
    /\ candidates[2].given = Given(clusters)
    /\ candidates[2].value = << >>

\* the calls of thread t in progress, innermost last
CallsOf(t) == { frames[t][i] : i \in DOMAIN frames[t] }

\* C21 as stated: load, reload and unload are serialized: the shutdown and
\* the eviction of reload and every step of unload are made by a thread that
\* holds the lock of the loader.
C21_ReloadAndUnloadInsideTheLock ==
    \A t \in Threads :
        (/\ frames[t] # << >>
         /\ \/ Top(World, t).op = "reload" /\ Top(World, t).pc \in {"shutdown", "evict"}
            \/ Top(World, t).op = "unload"
               /\ Top(World, t).pc \in {"shutdown", "unregister", "evict"})
            => loader_lock.owner = t

\* C21, what the code does: only load takes the lock of the loader, from its
\* checksum to its loaded callbacks; its failure branch, reload and unload run
\* without it.
C21_OnlyLoadInsideTheLock ==
    \A t \in Threads :
        /\ \A f \in CallsOf(t) :
              (f.op = "load" /\ f.pc \in {"import", "register", "notify", "release"})
                 => loader_lock.owner = t
        /\ (loader_lock.owner = t) => \E f \in CallsOf(t) : f.op = "load"

\* thread t makes the step `label` of an execute
ExecuteAt(t, label) ==
    /\ frames[t] # << >>
    /\ Top(World, t).op = "execute" /\ Top(World, t).pc = label
    /\ \A other \in Threads \ {t} : frames'[other] = frames[other]
    /\ frames'[t] # frames[t]

\* C22: execute is not serialized against reload and unload: whatever happened
\* to the plugin since execute read its record, execute calls the entry point
\* of the instance it read, shut down or not, and counts the call on the
\* record it read: a record that has been replaced or removed leaves the
\* registry as it is.
C22_ExecuteActsOnTheRecordItRead ==
    [][\A t \in Threads :
         LET f == Top(World, t)
         IN  /\ ExecuteAt(t, "invoke") =>
                  /\ Top(World, t)'.stale = (<< f.arg, f.held >> \in shut)
                  /\ plugins' = plugins /\ loader_lock' = loader_lock
             /\ ExecuteAt(t, "count") =>
                  /\ ret'.op = "execute" /\ ret'.stale = f.stale
                  /\ ret'.superseded = ~StillRegistered(World, f)
                  /\ ret'.superseded => plugins' = plugins
                  /\ ~ret'.superseded =>
                       /\ DOMAIN plugins' = DOMAIN plugins
                       /\ plugins'[f.arg].execution_count + plugins'[f.arg].error_count
                            = plugins[f.arg].execution_count
                                + plugins[f.arg].error_count + 1]_vars

\* an execute read the ACTIVE record and its instance, a reload of another
\* thread shut the instance down and registered a new record, and the execute
\* then called the entry point of the instance shut down and counted the call
\* on the record replaced
C22_Witness ==
    /\ ret.op = "execute" /\ ret.arg = "alpha"
    /\ ret.stale /\ ret.superseded /\ ret.value
    /\ CanExecute(Loader, "alpha")
    /\ plugins["alpha"].execution_count = 0
    /\ \E t \in Threads : frames[t] = << >>

\* the same with an unload of the other thread: the record is gone
C22_WitnessUnload ==
    /\ ret.op = "execute" /\ ret.arg = "alpha"
    /\ ret.stale /\ ret.superseded
    /\ "alpha" \notin DOMAIN plugins

\* C23 as stated: with the callbacks of the trainer registered, a thread in
\* update_capability and a thread in load both complete: never does one hold
\* the lock of the engine and wait for the lock of the loader while the other
\* holds the lock of the loader and waits for the lock of the engine.
C23_NoThreadsWaitForEachOther ==
    ~ \E t \in Threads, other \in Threads :
        /\ lock.owner = t /\ WaitsForLoader(World, t)
        /\ loader_lock.owner = other /\ WaitsForEngine(World, other)

\* C23, what the code does: a thread waits for one of the two locks while it
\* holds the other only inside a callback, and then the locks are taken in
\* the two orders: the engine's first by update_capability, the loader's first
\* by load.
C23_LocksTakenInBothOrders ==
    \A t \in Threads :
        /\ (lock.owner = t /\ WaitsForLoader(World, t)) =>
              frames[t][1].op = "update" /\ Len(frames[t]) > 1
        /\ (loader_lock.owner = t /\ WaitsForEngine(World, t)) =>
              frames[t][1].op = "load" /\ Len(frames[t]) > 1

\* C31: no operation of the engine changes the resolved flag of a gap: every
\* unresolved gap is still there and unresolved after any step, whatever the
\* capability of its domain has become.
C31_NoOperationResolvesAGap ==
    [][\A i \in DOMAIN gaps :
         ~gaps[i].is_resolved =>
            /\ i \in DOMAIN gaps'
            /\ gaps'[i].domain = gaps[i].domain
            /\ ~gaps'[i].is_resolved]_vars

\* the capability of 4G LTE has been raised above its target of 0.9 after the
\* gap was identified, and the next cycle made one more attempt on the gap,
\* still unresolved
C31_Witness ==
    /\ learning_cycles = 2 /\ pc["t1"] = "idle"
    /\ Get(capabilities, "4g_lte", 0) >= 90
    /\ \E i \in DOMAIN gaps :
         /\ gaps[i].domain = "4g_lte"
         /\ ~gaps[i].is_resolved
         /\ gaps[i].resolution_attempts = 2

\* the attempts counted on the first n gaps
RECURSIVE AttemptsOn(_, _)
AttemptsOn(gs, n) ==
    IF n = 0 THEN 0 ELSE AttemptsOn(gs, n - 1) + gs[n].resolution_attempts

\* no gap has more than three attempts, no gap after the third has any, and
\* the strategies are those of the attempts: nine at most
AttemptsBounded ==
    /\ \A i \in DOMAIN gaps :
         /\ gaps[i].resolution_attempts \in 0..MaxAttempts
         /\ i > AdaptSlice => gaps[i].resolution_attempts = 0
    /\ Len(strategies) = AttemptsOn(gaps, Len(gaps))
    /\ Len(strategies) <= AdaptSlice * MaxAttempts

\* C32 as stated: attempts stay in 0..3, only the three earliest gaps receive
\* strategies, an engine creates nine strategies at most, and so ADAPT creates
\* none from the fourth cycle on.
C32_NoStrategiesFromTheFourthCycle ==
    /\ []AttemptsBounded
    /\ [][\A t \in Threads :
            (pc[t] = "adapt" /\ pc'[t] # "adapt" /\ learning_cycles >= 4) =>
               Len(strategies') = Len(strategies)]_vars

\* C32, what the code does: attempts stay in 0..3, only the three earliest gaps
\* receive strategies, an engine creates nine strategies at most; ADAPT creates
\* none once each of the three earliest gaps has three attempts, which is the
\* fourth cycle only when the first cycle found three gaps or more and no cycle
\* was cut short.
C32_NineStrategiesForTheFirstThreeGaps ==
    /\ []AttemptsBounded
    /\ [][\A t \in Threads :
            (/\ pc[t] = "adapt" /\ pc'[t] # "adapt"
             /\ \A i \in DOMAIN gaps :
                   i <= AdaptSlice => gaps[i].resolution_attempts = MaxAttempts) =>
               Len(strategies') = Len(strategies)]_vars

\* nine strategies made, the cycles go on, the fourth gap has no attempt
C32_Witness ==
    /\ Len(strategies) = AdaptSlice * MaxAttempts
    /\ learning_cycles = MaxAttemptCycles /\ pc["t1"] = "idle"
    /\ Len(gaps) > AdaptSlice
    /\ gaps[AdaptSlice + 1].resolution_attempts = 0

\* the most recent load of the file has failed: its error callbacks were
\* called and no loaded callback for it since
LastLoadFailed(name) ==
    \E i \in DOMAIN calls :
        /\ calls[i].event = "plugin_error" /\ calls[i].subject = name
        /\ \A j \in DOMAIN calls :
             j > i => ~(calls[j].event = "plugin_loaded" /\ calls[j].subject = name)

\* the plugin files of the directory a load of which failed last
FailedFiles == {name \in DOMAIN files : ~IsPrivate(name) /\ LastLoadFailed(name)}

C34_PriorityFromOneToTen ==
    \A i \in DOMAIN objectives : objectives[i].priority \in 1..10

\* C34, what the code does: int(severity * 10) of a severity in (0, 1] is in
\* 0..10, and 0 for every gap of less than a tenth of its target.
C34_PriorityFromZeroToTen ==
    \A i \in DOMAIN objectives : objectives[i].priority \in 0..10

\* the target _reflect sets for a domain
TargetOf(domain) ==
    LET i == CHOOSE i \in DOMAIN priority_domains : priority_domains[i].domain = domain
    IN  priority_domains[i].target

\* C35 as stated: the target value of every objective PLAN creates, current +
\* 0.10, is at most 1.0, the highest confidence the capability store holds, so
\* that the objective can be achieved.
C35_TargetValueWithinTheStore ==
    \A i \in DOMAIN objectives : objectives[i].target_value <= 100

\* C35, what the code does: the target value is less than a tenth above the
\* target of the domain, up to 1.04 for internet provision, and an objective
\* with a target value above 1.0 is never achieved.
C35_TargetValueBelowDomainTargetPlusStep ==
    \A i \in DOMAIN objectives :
        /\ objectives[i].target_value < TargetOf(objectives[i].domain) + ObjectiveStep
        /\ objectives[i].target_value > 100 => ~objectives[i].is_achieved

\* a step that is a call of register_skill
RegisterSkillStep == Len(registrations') = Len(registrations) + 1

LastRegistration == registrations'[Len(registrations')]

\* C36 as stated: register_skill is all-or-nothing: when it returns false
\* because the skill could not be persisted, the manifest and the status of
\* the skill are as before the call, and get_active_skills does not list a
\* skill it did not list before.
C36_FailedRegistrationChangesNothing ==
    [][(RegisterSkillStep /\ ~LastRegistration.value) =>
          /\ discovered_skills' = discovered_skills
          /\ skill_status' = skill_status
          /\ get_active_skills' = get_active_skills]_vars

\* C36, what the code does: the status is set and the skill put in the
\* manifest before it is persisted; when persisting fails only the table is as
\* before, and get_active_skills lists the skill.
C36_FailedRegistrationLeavesTheSkillActive ==
    [][(RegisterSkillStep /\ ~LastRegistration.value) =>
          /\ skills_table' = skills_table
          /\ LastRegistration.skill_id \in get_active_skills']_vars

\* the status changes of the lifecycle of a skill
SkillLifecycle ==
    { << CANDIDATE, TESTING >>, << CANDIDATE, ACTIVE >>, << TESTING, ACTIVE >>,
      << TESTING, DEPRECATED >>, << TESTING, FAILED >>,
      << ACTIVE, DEPRECATED >>, << ACTIVE, FAILED >> }

\* C37 as stated: every status change of a skill is one of the lifecycle
\* CANDIDATE -> TESTING or ACTIVE -> DEPRECATED or FAILED: register_skill
\* moves a candidate to ACTIVE, and no operation moves a skill from DEPRECATED
\* or FAILED back to ACTIVE.
C37_StatusChangesFollowTheLifecycle ==
    [][\A id \in SkillIds :
         skill_status'[id] # skill_status[id] =>
            << skill_status[id], skill_status'[id] >> \in SkillLifecycle]_vars

\* C37, what the code does: register_skill makes the skill ACTIVE whatever its
\* status was, and nothing else changes a status.
C37_RegistrationActivatesAnySkill ==
    [][/\ RegisterSkillStep => skill_status'[LastRegistration.skill_id] = ACTIVE
       /\ \A id \in SkillIds :
            skill_status'[id] # skill_status[id] =>
               RegisterSkillStep /\ id = LastRegistration.skill_id]_vars

\* thread t is inside the try block of a load, before the record is registered
Loading(t) ==
    \E f \in CallsOf(t) : f.op = "load" /\ f.pc \in {"import", "register"}

\* thread t makes the last step of an unload that returns True
UnloadReturnsTrue(t) ==
    /\ frames[t] # << >>
    /\ Top(World, t).op = "unload" /\ Top(World, t).pc = "evict"
    /\ frames'[t] = << >>

\* C38 as stated: the status of a plugin record follows DISCOVERED -> LOADING
\* -> ACTIVE or ERROR, ACTIVE -> DISABLED on unload, ACTIVE -> LOADING ->
\* ACTIVE or ERROR on reload: while a load of a plugin is in progress its
\* record has status LOADING, and a plugin that has been unloaded is left with
\* a record of status DISABLED.
C38_LoadingAndDisabledAreUsed ==
    /\ [](\A t \in Threads :
            Loading(t) =>
               \E f \in CallsOf(t) :
                  /\ f.op = "load" /\ f.arg \in DOMAIN plugins
                  /\ plugins[f.arg].status = LOADING)
    /\ [][\A t \in Threads :
            UnloadReturnsTrue(t) =>
               /\ Top(World, t).arg \in DOMAIN plugins'
               /\ plugins'[Top(World, t).arg].status = DISABLED]_vars

\* C38, what the code does: a record is created ACTIVE or ERROR when a load
\* ends and never changes its status; during a load the registry holds the
\* record of the load before or none; unload takes the record out of the
\* registry.
C38_RecordsAreActiveOrError ==
    /\ [](\A id \in DOMAIN plugins : plugins[id].status \in {ACTIVE, ERROR})
    /\ [][\A t \in Threads :
            (/\ frames[t] # << >>
             /\ Top(World, t).op = "unload" /\ Top(World, t).pc = "unregister"
             /\ Len(frames'[t]) = Len(frames[t])
             /\ frames'[t][Len(frames[t])].pc = "evict") =>
               Top(World, t).arg \notin DOMAIN plugins']_vars

\* the notifications of the skill threshold for a domain in the chain
FiredFor(domain) == {i \in DOMAIN skill_events : skill_events[i].domain = domain}

\* the loads in progress in thread t, one inside the other
NestedLoads(t) == {i \in DOMAIN frames[t] : frames[t][i].op = "load"}

\* C39: in a call chain started by an update_capability or a load under the
\* wiring of the trainer, the skill threshold is notified at most once for
\* each capability name, every load but the first is nested in one of these
\* notifications, and the chain comes to its end.
C39_ChainFiresEachNameOnceAndEnds ==
    /\ [](\A i \in DOMAIN skill_events :
            Cardinality(FiredFor(skill_events[i].domain)) = 1)
    /\ [](Cardinality(NestedLoads("t1")) <= Len(skill_events) + 1)
    /\ (frames["t1"] # << >>) ~> (frames["t1"] = << >>)

\* a load of alpha has raised network over the threshold, the load of the
\* generated plugin nested in it has raised predictor over the threshold, and
\* a third load is nested in that
C39_Witness ==
    /\ Cardinality(NestedLoads("t1")) = 3
    /\ Cardinality(FiredFor("network")) = 1
    /\ Cardinality(FiredFor("predictor")) = 1

\* an ADAPT phase run to its end by thread t
AdaptStep(t) == pc[t] = "adapt" /\ pc'[t] = "save"

\* the gaps that are unresolved and have fewer than three resolution attempts
Eligible(gs) ==
    {i \in 1..Len(gs) : ~gs[i].is_resolved /\ gs[i].resolution_attempts < MaxAttempts}

\* C24 as stated: each ADAPT phase synthesizes a strategy for min(3, N) gaps, N
\* the number of unresolved gaps with fewer than 3 resolution attempts.
C24_StrategyForThreeEligibleGaps ==
    [][\A t \in Threads : AdaptStep(t) =>
         Len(strategies') - Len(strategies)
            = Min(AdaptSlice, Cardinality(Eligible(gaps)))]_vars

\* C24, what the code does: a strategy for each of the first three unresolved
\* gaps that has fewer than 3 attempts, so none for an eligible gap behind them.
C24_StrategyForEligibleOfFirstThree ==
    [][\A t \in Threads : AdaptStep(t) =>
         Len(strategies') - Len(strategies)
            = Cardinality(Eligible(gaps) \cap Range(AdaptSelection(gaps)))]_vars

\* C25 as stated: after every ADAPT phase every strategy with success rate
\* < 0.3 and usage count >= 5 (5 included) is inactive, and no other strategy
\* has been deactivated by the phase.
C25_FailingFromFiveUsesInactive ==
    [][\A t \in Threads : pc[t] = "adapt" /\ pc'[t] # "adapt" =>
         \A i \in 1..Len(strategies) :
            IF strategies[i].success_rate < 30 /\ strategies[i].usage_count >= 5
            THEN ~strategies'[i].is_active
            ELSE strategies'[i].is_active = strategies[i].is_active]_vars

\* C25, what the code does: the same from six uses on.
C25_FailingAfterFiveUsesInactive ==
    [][\A t \in Threads : pc[t] = "adapt" /\ pc'[t] # "adapt" =>
         \A i \in 1..Len(strategies) :
            IF strategies[i].success_rate < 30 /\ strategies[i].usage_count >= 6
            THEN ~strategies'[i].is_active
            ELSE strategies'[i].is_active = strategies[i].is_active]_vars

\* the objectives a step has appended
NewObjectives == SubSeq(objectives', Len(objectives) + 1, Len(objectives'))

\* the gaps of the cycle of thread t an objective can have been made for
GapsOf(t, objective) ==
    {i \in Range(local[t].gaps) : gaps[i].domain = objective.domain}

\* C26 as stated: every objective PLAN creates for a gap of severity s has
\* priority round(s * 10), e.g. 10 for s = 0.96.
C26_PriorityIsRounded ==
    [][\A t \in Threads : pc[t] = "plan" =>
         \A k \in 1..Len(NewObjectives) : \A i \in GapsOf(t, NewObjectives[k]) :
            NewObjectives[k].priority = PriorityRounded(gaps[i].severity)]_vars

\* C26, what the code does: the priority is s * 10 cut to a whole number, never
\* above it and less than one below it.
C26_PriorityIsTruncated ==
    [][\A t \in Threads : pc[t] = "plan" =>
         \A k \in 1..Len(NewObjectives) : \A i \in GapsOf(t, NewObjectives[k]) :
            /\ NewObjectives[k].priority * gaps[i].severity.den
                 <= gaps[i].severity.num * 10
            /\ (NewObjectives[k].priority + 1) * gaps[i].severity.den
                 >= gaps[i].severity.num * 10]_vars

\* the objectives not achieved yet
NotAchieved(objs) == {i \in 1..Len(objs) : ~objs[i].is_achieved}

\* C27: an objective's achieved flag changes only from false to true, only in
\* the EVALUATE phase of a cycle given feedback data, and only if the capability
\* of its domain is at least its target value then; a cycle without data leaves
\* the flags alone; achieved and in-progress of an evaluation sum to the number
\* of objectives not achieved before it.
C27_AchievedOnlyByEvaluation ==
    [][/\ Len(objectives') >= Len(objectives)
       /\ \A i \in 1..Len(objectives) :
            objectives'[i].is_achieved # objectives[i].is_achieved =>
               /\ ~objectives[i].is_achieved
               /\ \E t \in Threads : pc[t] = "evaluate" /\ local[t].training_data
               /\ Get(capabilities, objectives[i].domain, 0) >= objectives[i].target_value
       /\ \A t \in Threads :
            (pc[t] = "evaluate" /\ pc'[t] = "adapt" /\ local[t].training_data) =>
               /\ results'[t].evaluation[1].achieved + results'[t].evaluation[1].in_progress
                    = Cardinality(NotAchieved(objectives))
               /\ results'[t].evaluation[1].achieved
                    = Cardinality(NotAchieved(objectives) \ NotAchieved(objectives'))]_vars

\* an evaluation with feedback data has found one objective achieved and left
\* another in progress
C27_Witness ==
    \E t \in Threads :
        /\ pc[t] = "adapt"
        /\ results[t].evaluation # << >>
        /\ results[t].evaluation[1].achieved = 1
        /\ results[t].evaluation[1].in_progress >= 1
        /\ \E i \in 1..Len(objectives) : objectives[i].is_achieved

ReloadStep == ops' # ops /\ ret'.op = "reload"

\* C28: reload(id) of an unknown id returns false and changes nothing; for a
\* registered id it attempts shutdown of the instance there is (an error of
\* shutdown does not stop it), evicts the cached module and loads again; when
\* the file loads, the registry record of id is ACTIVE with the load_count of
\* the record it replaced plus one.
C28_ReloadCarriesLoadCount ==
    [][ReloadStep =>
        LET id == ret'.arg
        IN  IF id \notin DOMAIN plugins
            THEN /\ ~ret'.value
                 /\ UNCHANGED << plugins, capabilities_map, sys_modules,
                                 loaded_modules, calls, files >>
            ELSE /\ plugins[id].instance =>
                      /\ NewCalls[1].event = "shutdown" /\ NewCalls[1].subject = id
                      /\ NewCalls[1].raised = ret'.shutdown_raised
                 /\ ret'.value = (LoadRaises(id) = "none")
                 /\ NewCalls[Len(NewCalls)].event
                      = IF ret'.value THEN "plugin_loaded" ELSE "plugin_error"
                 /\ id \in loaded_modules' <=> LoadRaises(id) \in {"none", "skill_class", "initialize"}
                 /\ IF ret'.value
                    THEN /\ plugins'[id].status = ACTIVE
                         /\ plugins'[id].load_count = plugins[id].load_count + 1
                         /\ plugins'[id].file_checksum = compute_checksum(files[id])
                    ELSE plugins'[id].status = ERROR]_vars

\* an ACTIVE plugin has been reloaded, its shutdown raising: the reload has
\* returned true and the record counts two loads
C28_Witness ==
    /\ ret.op = "reload" /\ ret.value /\ ret.shutdown_raised
    /\ plugins[ret.arg].status = ACTIVE
    /\ plugins[ret.arg].load_count = 2

\* the step registers a new record for plugin_id or removes the one there is
Replaces(plugin_id) ==
    /\ ops' # ops
    /\ CASE ret'.op \in {"load", "reload"} -> ret'.arg = plugin_id
         [] ret'.op = "load_all" -> plugin_id \in DOMAIN ret'.value
         [] ret'.op = "unload" -> ret'.arg = plugin_id /\ plugin_id \notin DOMAIN plugins'
         [] OTHER -> FALSE

ShutDownIn(invocations, plugin_id) ==
    \E i \in 1..Len(invocations) :
        invocations[i].event = "shutdown" /\ invocations[i].subject = plugin_id

\* C29 as stated: whenever the loader replaces or removes the instance of an
\* ACTIVE record (by reload, by unload, or by load or load_all loading a file
\* over a loaded plugin id), shutdown has been called on the old instance
\* before.
C29_ShutdownBeforeReplacement ==
    [][\A id \in Range(FileNames) :
         (CanExecute(Loader, id) /\ Replaces(id)) => ShutDownIn(NewCalls, id)]_vars

\* C29, what the code does: reload and unload call shutdown first, load and
\* load_all replace the record without any call of shutdown.
C29_ShutdownOnlyByReloadAndUnload ==
    [][\A id \in Range(FileNames) :
         (CanExecute(Loader, id) /\ Replaces(id)) =>
            (ShutDownIn(NewCalls, id) <=> ret'.op \in {"reload", "unload"})]_vars

\* C30 as stated: after any sequence of register and unregister calls every
\* plugin get_by_capability(c) returns lists c among its capabilities.
C30_ReturnedPluginsListTheCapability ==
    \A c \in Capabilities :
        \A id \in Range(get_by_capability(c).value) \cap DOMAIN plugins :
            c \in Range(plugins[id].capabilities)

\* C30, what the code does: a plugin get_by_capability(c) returns is registered
\* and has been registered under c, by its record or by one it has overwritten.
C30_ReturnedPluginsAreRegistered ==
    \A c \in Capabilities :
        /\ Range(get_by_capability(c).value) \subseteq DOMAIN plugins
        /\ \A id \in DOMAIN plugins :
             c \in Range(plugins[id].capabilities) =>
                id \in Range(get_by_capability(c).value)

\* the plugins table: _save_plugin is called by load alone, with the record as
\* load has built it, so the row of a plugin is the record of its last load
\* that succeeded
plugins_table == [id \in DOMAIN loaded_text |-> LoadedInfo(id, loaded_text[id])]

\* C40 as stated: after every load or reload that succeeds the persisted
\* record agrees with the record of the registry on load_count, status and
\* checksum; after a reload the persisted load_count is the incremented one.
C40_PersistedRecordAgreesWithRegistry ==
    [][((LoadStep \/ ReloadStep) /\ ret'.value) =>
          LET id == ret'.arg
          IN  /\ plugins_table'[id].load_count = plugins'[id].load_count
              /\ plugins_table'[id].status = plugins'[id].status
              /\ plugins_table'[id].file_checksum = plugins'[id].file_checksum]_vars

\* C40, what the code does: the record is persisted inside load, before reload
\* sets the load_count: after a load the two agree, after a reload the table
\* says load_count 1 and the registry the old count plus one.
C40_PersistedLoadCountIsOne ==
    [][((LoadStep \/ ReloadStep) /\ ret'.value) =>
          LET id == ret'.arg
          IN  /\ plugins_table'[id].load_count = 1
              /\ plugins'[id].load_count
                   = IF ret'.op = "reload" THEN plugins[id].load_count + 1 ELSE 1
              /\ plugins_table'[id].status = plugins'[id].status
              /\ plugins_table'[id].file_checksum = plugins'[id].file_checksum]_vars

====
